---- MODULE Spec2Model ----
(***************************************************************************)
(* The tarot interpretation engine of client/src/lib/tarotEngine.ts, its    *)
(* shuffler and dealer, and the route that serves it.                      *)
(*                                                                         *)
(* A JavaScript string is modelled as a Text: a sequence of fragments, so  *)
(* that a template literal `${a} lit ${b}` is  a \o <<" lit ">> \o b  and  *)
(* "verbatim", "followed by" and "nothing appended" are checkable.  Names, *)
(* ids, suits and keywords are single fragments (TLA+ strings).            *)
(***************************************************************************)
EXTENDS Integers, Sequences, FiniteSets, TLC

VARIABLES
    spread,            \* argument: the TarotSpread
    placedCards,       \* argument: PlacedCard[]
    catalog,           \* argument: the card catalog, TarotCard[]
    combinationRules,  \* argument: CombinationRule[]
    options,           \* argument: InterpretationOptions | undefined
    outcome,           \* what the last interpretReading call settled to
    shuffled,          \* what the last shuffleDeck call returned
    stage,             \* how far the calls have come
    request,           \* the body of the request to POST /api/interpret
    response,          \* what POST /api/interpret answered
    selectedSpread,    \* Home state: TarotSpread | null
    shown,             \* Home state interpretation: InterpretationResult | null
                       \* (the engine part has locals named interpretation)
    isManualMode,      \* Home state: boolean
    inFlight,          \* the interpret mutations of Home that have not settled
    toasted            \* the title of the last toast Home raised

\* the state of the Home page
homeVars == <<selectedSpread, shown, isManualMode, inFlight, toasted>>

vars == <<spread, placedCards, catalog, combinationRules, options, outcome,
          shuffled, stage, request, response, homeVars>>

-----------------------------------------------------------------------------
(* Bounds of the model *)

\* longest placedCards list drawn from arbitrary placed cards
MaxPlaced == 2
\* longest placedCards list drawn laid out along the spread
MaxLaidOut == 3

\* longest placedCards list drawn from cards stacked on one position
MaxStacked == 5
\* longest placedCards list drawn from the mixed catalog, stacked on one position
MaxMixed == 3

\* the most cards of a deck that is shuffled and dealt
MaxDeck == 4

\* Math.random() is modelled as r / RandomResolution for r in 0..RandomResolution-1
RandomResolution == 10

-----------------------------------------------------------------------------
(* JavaScript values *)

\* the value `undefined` of an optional string field
Undefined == "$undefined"

\* the character U+2014 (em dash) of the templates, which a TLA+ string cannot hold
EmDash == "[U+2014]"

\* JavaScript truthiness of an optional string
Truthy(s) == s # Undefined /\ s # ""

\* JavaScript truthiness of a number
TruthyNum(n) == n # 0

\* String.prototype.toLowerCase on the names and role hints of the model
toLowerCase(s) ==
    CASE s = "Focus" -> "focus"
      [] s = "Past" -> "past"
      [] s = "Present" -> "present"
      [] s = "Future" -> "future"
      [] s = "Central theme" -> "central theme"
      [] s = "What came before" -> "what came before"
      [] s = "Where you stand" -> "where you stand"
      [] s = "What is coming" -> "what is coming"
      [] s = "Advice" -> "advice"
      [] s = "Outcome" -> "outcome"
      [] s = "What to do" -> "what to do"
      [] s = "Where it leads" -> "where it leads"
      [] OTHER -> s

\* Array.prototype.includes
Includes(s, x) == \E i \in 1..Len(s) : s[i] = x

\* Array.prototype.slice(0, n)
Slice0(s, n) == SubSeq(s, 1, IF Len(s) < n THEN Len(s) ELSE n)

\* Array.prototype.join(" ") on an array of Texts
RECURSIVE JoinSpace(_)
JoinSpace(ts) ==
    IF Len(ts) = 0 THEN <<>>
    ELSE IF Len(ts) = 1 THEN ts[1]
    ELSE ts[1] \o <<" ">> \o JoinSpace(Tail(ts))

-----------------------------------------------------------------------------
(* The catalogs the engine is called with *)

TheFool ==
    [id |-> "major-0", name |-> "The Fool", arcana |-> "Major",
     suit |-> Undefined, keywords |-> <<"beginnings", "balance", "transformation">>,
     uprightShort |-> <<"New beginnings.">>,
     uprightLong |-> <<"A leap of faith.">>,
     reversedShort |-> <<"Recklessness.">>,
     reversedLong |-> <<"Poor judgment.">>]

AceOfCups ==
    [id |-> "cups-1", name |-> "Ace of Cups", arcana |-> "Minor",
     suit |-> "cups", keywords |-> <<"love", "intuition", "balance">>,
     uprightShort |-> <<"New feelings.">>,
     uprightLong |-> <<"An open heart.">>,
     reversedShort |-> <<"Emptiness.">>,
     reversedLong |-> <<"Blocked feelings.">>]

AceOfWands ==
    [id |-> "wands-1", name |-> "Ace of Wands", arcana |-> "Minor",
     suit |-> "wands", keywords |-> <<"inspiration", "creation", "power">>,
     uprightShort |-> <<"A spark.">>,
     uprightLong |-> <<"A new venture.">>,
     reversedShort |-> <<"Delays.">>,
     reversedLong |-> <<"A lack of direction.">>]

TheMagician ==
    [id |-> "major-1", name |-> "The Magician", arcana |-> "Major", suit |-> Undefined,
     keywords |-> <<"power", "skill">>,
     uprightShort |-> <<"Willpower.">>,
     uprightLong |-> <<"The tools are at hand.">>,
     reversedShort |-> <<"Trickery.">>,
     reversedLong |-> <<"Talent is wasted.">>]

TwoOfCups ==
    [id |-> "cups-2", name |-> "Two of Cups", arcana |-> "Minor", suit |-> "cups",
     keywords |-> <<"love", "union">>,
     uprightShort |-> <<"Partnership.">>,
     uprightLong |-> <<"A bond is formed.">>,
     reversedShort |-> <<"Imbalance.">>,
     reversedLong |-> <<"A bond is strained.">>]

\* two cards of a suit that getSuitTheme has no case for
AceOfCoins ==
    [id |-> "coins-1", name |-> "Ace of Coins", arcana |-> "Minor", suit |-> "coins",
     keywords |-> <<"wealth">>,
     uprightShort |-> <<"A gift.">>,
     uprightLong |-> <<"A gift arrives.">>,
     reversedShort |-> <<"A loss.">>,
     reversedLong |-> <<"A gift is lost.">>]

TwoOfCoins ==
    [id |-> "coins-2", name |-> "Two of Coins", arcana |-> "Minor", suit |-> "coins",
     keywords |-> <<"wealth", "balance">>,
     uprightShort |-> <<"Juggling.">>,
     uprightLong |-> <<"Two needs are kept in the air.">>,
     reversedShort |-> <<"Overload.">>,
     reversedLong |-> <<"One need is dropped.">>]

\* the card catalog (TarotCard[])
allCards == <<TheFool, AceOfCups, AceOfWands>>

\* a card id that no catalog entry has
GhostId == "ghost-9"

\* the card ids a placed card may name
CardIds == {allCards[i].id : i \in 1..Len(allCards)} \cup {GhostId}

\* a spread whose position indices leave a gap (no position 3)
FiveCard ==
    [id |-> "five-card", name |-> "Five Card Path",
     positions |-> <<
        [index |-> 0, name |-> "Past", roleHint |-> "What came before"],
        [index |-> 1, name |-> "Present", roleHint |-> "Where you stand"],
        [index |-> 2, name |-> "Future", roleHint |-> "What is coming"],
        [index |-> 4, name |-> "Advice", roleHint |-> "What to do"],
        [index |-> 5, name |-> "Outcome", roleHint |-> "Where it leads"]>>]

SingleCard ==
    [id |-> "single", name |-> "Single Card",
     positions |-> <<
        [index |-> 0, name |-> "Focus", roleHint |-> "Central theme"]>>]

\* the spreads a call may be made with
Spreads == {FiveCard, SingleCard}

\* a spread of two positions whose indices leave a gap (no position 1)
TwoCard ==
    [id |-> "two-card", name |-> "Two Card Choice",
     positions |-> <<
        [index |-> 0, name |-> "Situation", roleHint |-> "Where you are"],
        [index |-> 2, name |-> "Challenge", roleHint |-> "What stands in the way"]>>]

\* the spreads the user of the Home page picks from
HomeSpreads == {SingleCard, TwoCard}

\* the position numbers a placed card may name
PositionNumbers == 0..1

Orientations == {"upright", "reversed"}

\* PlacedCard
PlacedCardValues ==
    [cardId : CardIds, orientation : Orientations, position : PositionNumbers]

FoolAndCups ==
    [id |-> "rule-1", name |-> "Fool meets Ace of Cups",
     cardIds |-> <<"major-0", "cups-1">>, condition |-> "any_position",
     modifier |-> <<"A new love begins without a plan.">>, weight |-> 5,
     isActive |-> TRUE]

WandsNearby ==
    [id |-> "rule-2", name |-> "Wands nearby",
     cardIds |-> <<"wands-1">>, condition |-> "adjacent",
     modifier |-> <<"Act on the spark.">>, weight |-> 1,
     isActive |-> FALSE]

\* the combinationRules arguments a call may be made with
RuleCatalogs == {<<>>, <<FoolAndCups>>, <<WandsNearby, FoolAndCups>>}

\* InterpretationOptions | undefined: given says whether the options object
\* was passed, reversalMode is Undefined when the object omits it
OptionValues ==
    {[given |-> FALSE, reversalMode |-> Undefined],
     [given |-> TRUE, reversalMode |-> Undefined],
     [given |-> TRUE, reversalMode |-> "soft"],
     [given |-> TRUE, reversalMode |-> "strong"]}

-----------------------------------------------------------------------------
(* new Map(allCards.map(c => [c.id, c])): a later entry with the same id   *)
(* replaces an earlier one                                                 *)

cardMapHas(cards, id) == \E i \in 1..Len(cards) : cards[i].id = id

cardMapGet(cards, id) ==
    cards[CHOOSE i \in 1..Len(cards) :
            /\ cards[i].id = id
            /\ \A j \in (i + 1)..Len(cards) : cards[j].id # id]

\* spread.positions.find(p => p.index === n): the first match
positionFound(sp, n) == \E i \in 1..Len(sp.positions) : sp.positions[i].index = n

\* mutant of positionFind: the position number is taken as an offset into
\* spread.positions
positionFindByOffset(sp, n) ==
    sp.positions[IF n + 1 < Len(sp.positions) THEN n + 1 ELSE Len(sp.positions)]

positionFind(sp, n) ==
    sp.positions[CHOOSE i \in 1..Len(sp.positions) :
            /\ sp.positions[i].index = n
            /\ \A j \in 1..(i - 1) : sp.positions[j].index # n]

-----------------------------------------------------------------------------
(* tarotEngine.ts *)

\* mutant of getBaseInterpretation: the reversal mode is not looked at, every
\* reversed card gets the soft suffixes
getBaseInterpretationAlwaysSoft(card, orientation, reversalMode) ==
    IF orientation = "upright"
    THEN [short |-> card.uprightShort, long |-> card.uprightLong]
    ELSE [short |-> card.reversedShort \o <<" (blocked or internal)">>,
          long |-> card.reversedLong \o <<" The energy of ", card.name,
                   " is present but may be blocked, internalized, or manifesting in a subtle way.">>]

getBaseInterpretation(card, orientation, reversalMode) ==
    IF orientation = "upright"
    THEN [short |-> card.uprightShort, long |-> card.uprightLong]
    ELSE IF reversalMode = "strong"
    THEN [short |-> card.reversedShort, long |-> card.reversedLong]
    ELSE [short |-> card.reversedShort \o <<" (blocked or internal)">>,
          long |-> card.reversedLong \o <<" The energy of ", card.name,
                   " is present but may be blocked, internalized, or manifesting in a subtle way.">>]

getPositionModifier(position, card, orientation) ==
    LET roleHint == IF Truthy(position.roleHint) THEN position.roleHint ELSE ""
        orientationNote ==
            IF orientation = "reversed" THEN "internal or blocked"
            ELSE "manifesting externally"
    IN  <<"As ", toLowerCase(position.name), ", this energy is ", orientationNote,
          " and suggests ", toLowerCase(roleHint), ".">>

Abs(n) == IF n < 0 THEN -n ELSE n

\* mutant of getAdjacentCards: the distance is taken without Math.abs
getAdjacentCardsSigned(placed, currentCard, sp) ==
    LET currentPos == currentCard.position
        near(card) ==
            /\ card.cardId # currentCard.cardId
            /\ card.position - currentPos <= 1
    IN  SelectSeq(placed, near)

getAdjacentCards(placed, currentCard, sp) ==
    LET currentPos == currentCard.position
        near(card) ==
            /\ card.cardId # currentCard.cardId
            /\ Abs(card.position - currentPos) <= 1
    IN  SelectSeq(placed, near)

getSuitTheme(suit) ==
    CASE suit = "wands" -> "passion, creativity, and spiritual growth"
      [] suit = "cups" -> "emotions, relationships, and intuition"
      [] suit = "swords" -> "thoughts, communication, and challenges"
      [] suit = "pentacles" -> "material matters, work, and practical concerns"
      [] OTHER -> "spiritual and life path themes"

\* adjCard?.suit and adjCard?.arcana of cardMap.get(adj.cardId)
suitOfId(cardMap, id) ==
    IF cardMapHas(cardMap, id) THEN cardMapGet(cardMap, id).suit ELSE Undefined

arcanaOfId(cardMap, id) ==
    IF cardMapHas(cardMap, id) THEN cardMapGet(cardMap, id).arcana ELSE Undefined

\* mutant of getAdjacencyInfluence: the suit note is not guarded by the
\* current card having a suit
getAdjacencyInfluenceAnySuit(placed, currentCard, cardMap, sp) ==
    LET adjacentCards == getAdjacentCards(placed, currentCard, sp)
        currentSuit == suitOfId(cardMap, currentCard.cardId)
        sameSuit(adj) == suitOfId(cardMap, adj.cardId) = currentSuit
        sameSuitCount == Len(SelectSeq(adjacentCards, sameSuit))
        suitNote ==
            IF sameSuitCount >= 2
            THEN << <<"Strong ", currentSuit, " influence emphasizes ",
                      getSuitTheme(currentSuit), ".">> >>
            ELSE <<>>
        isMajor(adj) == arcanaOfId(cardMap, adj.cardId) = "Major"
        majorCount == Len(SelectSeq(adjacentCards, isMajor))
        majorNote ==
            IF majorCount >= 2
            THEN << <<"Multiple Major Arcana nearby indicate significant life themes and spiritual lessons.">> >>
            ELSE <<>>
        isReversed(adj) == adj.orientation = "reversed"
        reversedCount == Len(SelectSeq(adjacentCards, isReversed))
        reversedNote ==
            IF reversedCount >= 2
            THEN << <<"Surrounded by reversed cards suggests internal work or blocked energies.">> >>
            ELSE <<>>
        influences == suitNote \o majorNote \o reversedNote
    IN  JoinSpace(influences)

\* mutant of getAdjacencyInfluence: the arcana of the current card counts too
getAdjacencyInfluenceCountingSelf(placed, currentCard, cardMap, sp) ==
    LET adjacentCards == getAdjacentCards(placed, currentCard, sp)
        currentSuit == suitOfId(cardMap, currentCard.cardId)
        sameSuit(adj) == suitOfId(cardMap, adj.cardId) = currentSuit
        sameSuitCount == Len(SelectSeq(adjacentCards, sameSuit))
        suitNote ==
            IF Truthy(currentSuit) /\ sameSuitCount >= 2
            THEN << <<"Strong ", currentSuit, " influence emphasizes ",
                      getSuitTheme(currentSuit), ".">> >>
            ELSE <<>>
        isMajor(adj) == arcanaOfId(cardMap, adj.cardId) = "Major"
        majorCount == Len(SelectSeq(adjacentCards, isMajor))
                      + (IF isMajor(currentCard) THEN 1 ELSE 0)
        majorNote ==
            IF majorCount >= 2
            THEN << <<"Multiple Major Arcana nearby indicate significant life themes and spiritual lessons.">> >>
            ELSE <<>>
        isReversed(adj) == adj.orientation = "reversed"
        reversedCount == Len(SelectSeq(adjacentCards, isReversed))
        reversedNote ==
            IF reversedCount >= 2
            THEN << <<"Surrounded by reversed cards suggests internal work or blocked energies.">> >>
            ELSE <<>>
        influences == suitNote \o majorNote \o reversedNote
    IN  JoinSpace(influences)

\* mutant of getAdjacencyInfluence: two reversed cards nearby are not enough
getAdjacencyInfluenceOverTwo(placed, currentCard, cardMap, sp) ==
    LET adjacentCards == getAdjacentCards(placed, currentCard, sp)
        currentSuit == suitOfId(cardMap, currentCard.cardId)
        sameSuit(adj) == suitOfId(cardMap, adj.cardId) = currentSuit
        sameSuitCount == Len(SelectSeq(adjacentCards, sameSuit))
        suitNote ==
            IF Truthy(currentSuit) /\ sameSuitCount >= 2
            THEN << <<"Strong ", currentSuit, " influence emphasizes ",
                      getSuitTheme(currentSuit), ".">> >>
            ELSE <<>>
        isMajor(adj) == arcanaOfId(cardMap, adj.cardId) = "Major"
        majorCount == Len(SelectSeq(adjacentCards, isMajor))
        majorNote ==
            IF majorCount >= 2
            THEN << <<"Multiple Major Arcana nearby indicate significant life themes and spiritual lessons.">> >>
            ELSE <<>>
        isReversed(adj) == adj.orientation = "reversed"
        reversedCount == Len(SelectSeq(adjacentCards, isReversed))
        reversedNote ==
            IF reversedCount > 2
            THEN << <<"Surrounded by reversed cards suggests internal work or blocked energies.">> >>
            ELSE <<>>
        influences == suitNote \o majorNote \o reversedNote
    IN  JoinSpace(influences)

\* mutant of getAdjacencyInfluence: the Major note is pushed before the suit note
getAdjacencyInfluenceMajorFirst(placed, currentCard, cardMap, sp) ==
    LET adjacentCards == getAdjacentCards(placed, currentCard, sp)
        currentSuit == suitOfId(cardMap, currentCard.cardId)
        sameSuit(adj) == suitOfId(cardMap, adj.cardId) = currentSuit
        sameSuitCount == Len(SelectSeq(adjacentCards, sameSuit))
        suitNote ==
            IF Truthy(currentSuit) /\ sameSuitCount >= 2
            THEN << <<"Strong ", currentSuit, " influence emphasizes ",
                      getSuitTheme(currentSuit), ".">> >>
            ELSE <<>>
        isMajor(adj) == arcanaOfId(cardMap, adj.cardId) = "Major"
        majorCount == Len(SelectSeq(adjacentCards, isMajor))
        majorNote ==
            IF majorCount >= 2
            THEN << <<"Multiple Major Arcana nearby indicate significant life themes and spiritual lessons.">> >>
            ELSE <<>>
        isReversed(adj) == adj.orientation = "reversed"
        reversedCount == Len(SelectSeq(adjacentCards, isReversed))
        reversedNote ==
            IF reversedCount >= 2
            THEN << <<"Surrounded by reversed cards suggests internal work or blocked energies.">> >>
            ELSE <<>>
        influences == majorNote \o suitNote \o reversedNote
    IN  JoinSpace(influences)

getAdjacencyInfluence(placed, currentCard, cardMap, sp) ==
    LET adjacentCards == getAdjacentCards(placed, currentCard, sp)
        currentSuit == suitOfId(cardMap, currentCard.cardId)
        sameSuit(adj) == suitOfId(cardMap, adj.cardId) = currentSuit
        sameSuitCount == Len(SelectSeq(adjacentCards, sameSuit))
        suitNote ==
            IF Truthy(currentSuit) /\ sameSuitCount >= 2
            THEN << <<"Strong ", currentSuit, " influence emphasizes ",
                      getSuitTheme(currentSuit), ".">> >>
            ELSE <<>>
        isMajor(adj) == arcanaOfId(cardMap, adj.cardId) = "Major"
        majorCount == Len(SelectSeq(adjacentCards, isMajor))
        majorNote ==
            IF majorCount >= 2
            THEN << <<"Multiple Major Arcana nearby indicate significant life themes and spiritual lessons.">> >>
            ELSE <<>>
        isReversed(adj) == adj.orientation = "reversed"
        reversedCount == Len(SelectSeq(adjacentCards, isReversed))
        reversedNote ==
            IF reversedCount >= 2
            THEN << <<"Surrounded by reversed cards suggests internal work or blocked energies.">> >>
            ELSE <<>>
        influences == suitNote \o majorNote \o reversedNote
    IN  JoinSpace(influences)

\* mutant of composeShortInterpretation: the position modifier it is handed is
\* added to the short text
composeShortInterpretationWithModifier(position, card, orientation, baseShort, positionModifier) ==
    <<position.name, ": ", card.name, " (", orientation, ") ", EmDash, " ">> \o baseShort
        \o <<" ">> \o positionModifier

composeShortInterpretation(position, card, orientation, baseShort, positionModifier) ==
    <<position.name, ": ", card.name, " (", orientation, ") ", EmDash, " ">> \o baseShort

composeLongInterpretation(position, card, orientation, baseLong, positionModifier, adjacencyNotes) ==
    LET interpretation ==
            <<card.name, " in ", position.name, " (", orientation, ") ", EmDash, " ">> \o baseLong
        withModifier ==
            IF positionModifier # <<>>
            THEN interpretation \o <<" ">> \o positionModifier
            ELSE interpretation
    IN  IF adjacencyNotes # <<>>
        THEN withModifier \o <<" ">> \o adjacencyNotes
        ELSE withModifier

\* a Map<string, number> as its entries in insertion order: set(k, (get(k) || 0) + 1)
mapIncrement(m, k) ==
    IF \E i \in 1..Len(m) : m[i][1] = k
    THEN [i \in 1..Len(m) |-> IF m[i][1] = k THEN <<k, m[i][2] + 1>> ELSE m[i]]
    ELSE Append(m, <<k, 1>>)

\* keys.forEach(k => counts.set(k, (counts.get(k) || 0) + 1)) on an empty Map
RECURSIVE countAll(_, _)
countAll(keys, m) ==
    IF keys = <<>> THEN m ELSE countAll(Tail(keys), mapIncrement(m, Head(keys)))

\* one step of the stable sort: e goes behind every entry whose count is not smaller
RECURSIVE insertDesc(_, _)
insertDesc(sorted, e) ==
    IF sorted = <<>> THEN <<e>>
    ELSE IF Head(sorted)[2] >= e[2]
    THEN <<Head(sorted)>> \o insertDesc(Tail(sorted), e)
    ELSE <<e>> \o sorted

\* [...entries].sort(([,a], [,b]) => b - a): descending by count, stable
RECURSIVE sortDesc(_)
sortDesc(entries) ==
    IF entries = <<>> THEN <<>>
    ELSE insertDesc(sortDesc(SubSeq(entries, 1, Len(entries) - 1)),
                    entries[Len(entries)])

\* cards.flatMap(c => c.keywords)
RECURSIVE flatKeywords(_)
flatKeywords(cards) ==
    IF cards = <<>> THEN <<>>
    ELSE Head(cards).keywords \o flatKeywords(Tail(cards))

\* mutant of generateSummary: the reversed clause compares the counts without
\* the truthiness guards on reversedCount and totalCards
generateSummaryUnguarded(majorCount, dominantSuit, reversedCount, totalCards) ==
    LET major ==
            IF majorCount >= 3
            THEN <<"This reading reveals significant life changes and spiritual themes. ">>
            ELSE IF majorCount >= 1
            THEN <<"Important life lessons and personal growth are highlighted. ">>
            ELSE <<>>
        suit ==
            IF Truthy(dominantSuit)
            THEN <<"The focus is on ", getSuitTheme(dominantSuit), ". ">>
            ELSE <<>>
        reversed ==
            IF 2 * reversedCount >= totalCards
            THEN <<"Many reversed cards suggest internal work and reflection are needed. ">>
            ELSE <<>>
    IN  major \o suit \o reversed
        \o <<"Trust your intuition as you interpret these messages for your path forward.">>

\* mutant of generateSummary: half the total is rounded down before the
\* comparison
generateSummaryRounded(majorCount, dominantSuit, reversedCount, totalCards) ==
    LET major ==
            IF majorCount >= 3
            THEN <<"This reading reveals significant life changes and spiritual themes. ">>
            ELSE IF majorCount >= 1
            THEN <<"Important life lessons and personal growth are highlighted. ">>
            ELSE <<>>
        suit ==
            IF Truthy(dominantSuit)
            THEN <<"The focus is on ", getSuitTheme(dominantSuit), ". ">>
            ELSE <<>>
        reversed ==
            IF TruthyNum(reversedCount) /\ TruthyNum(totalCards)
               /\ reversedCount >= totalCards \div 2
            THEN <<"Many reversed cards suggest internal work and reflection are needed. ">>
            ELSE <<>>
    IN  major \o suit \o reversed
        \o <<"Trust your intuition as you interpret these messages for your path forward.">>

\* mutant of generateSummary: the second Major Arcana test is an if of its
\* own, not an else if
generateSummaryBothClauses(majorCount, dominantSuit, reversedCount, totalCards) ==
    LET major ==
            (IF majorCount >= 3
             THEN <<"This reading reveals significant life changes and spiritual themes. ">>
             ELSE <<>>)
            \o (IF majorCount >= 1
                THEN <<"Important life lessons and personal growth are highlighted. ">>
                ELSE <<>>)
        suit ==
            IF Truthy(dominantSuit)
            THEN <<"The focus is on ", getSuitTheme(dominantSuit), ". ">>
            ELSE <<>>
        reversed ==
            IF TruthyNum(reversedCount) /\ TruthyNum(totalCards)
               /\ 2 * reversedCount >= totalCards
            THEN <<"Many reversed cards suggest internal work and reflection are needed. ">>
            ELSE <<>>
    IN  major \o suit \o reversed
        \o <<"Trust your intuition as you interpret these messages for your path forward.">>

generateSummary(majorCount, dominantSuit, reversedCount, totalCards) ==
    LET major ==
            IF majorCount >= 3
            THEN <<"This reading reveals significant life changes and spiritual themes. ">>
            ELSE IF majorCount >= 1
            THEN <<"Important life lessons and personal growth are highlighted. ">>
            ELSE <<>>
        suit ==
            IF Truthy(dominantSuit)
            THEN <<"The focus is on ", getSuitTheme(dominantSuit), ". ">>
            ELSE <<>>
        reversed ==
            IF TruthyNum(reversedCount) /\ TruthyNum(totalCards)
               /\ 2 * reversedCount >= totalCards
            THEN <<"Many reversed cards suggest internal work and reflection are needed. ">>
            ELSE <<>>
    IN  major \o suit \o reversed
        \o <<"Trust your intuition as you interpret these messages for your path forward.">>

\* mutant of generateConfidenceHints: the hints name the thresholds, not the
\* counts
generateConfidenceHintsOfThree(majorCount, dominantSuit, reversedCount) ==
    LET major ==
            IF majorCount >= 3
            THEN << <<"3",
                      " Major Arcana cards detected ", EmDash, " reading focuses on significant life themes">> >>
            ELSE <<>>
        suit ==
            IF Truthy(dominantSuit)
            THEN << <<"Dominant suit: ", dominantSuit, " ", EmDash, " interpretation emphasizes ",
                      getSuitTheme(dominantSuit)>> >>
            ELSE <<>>
        reversed ==
            IF TruthyNum(reversedCount) /\ reversedCount >= 3
            THEN << <<"3",
                      " reversed cards suggest internal processing or blocked energies">> >>
            ELSE <<>>
    IN  major \o suit \o reversed

generateConfidenceHints(majorCount, dominantSuit, reversedCount) ==
    LET major ==
            IF majorCount >= 3
            THEN << <<ToString(majorCount),
                      " Major Arcana cards detected ", EmDash, " reading focuses on significant life themes">> >>
            ELSE <<>>
        suit ==
            IF Truthy(dominantSuit)
            THEN << <<"Dominant suit: ", dominantSuit, " ", EmDash, " interpretation emphasizes ",
                      getSuitTheme(dominantSuit)>> >>
            ELSE <<>>
        reversed ==
            IF TruthyNum(reversedCount) /\ reversedCount >= 3
            THEN << <<ToString(reversedCount),
                      " reversed cards suggest internal processing or blocked energies">> >>
            ELSE <<>>
    IN  major \o suit \o reversed

\* mutant of candidateActions: the transformation suggestion is pushed
\* before the balance suggestion
candidateActionsTransformationFirst(majorCount, dominantSuit, keywords) ==
    LET major ==
            IF majorCount >= 2
            THEN <<"Pay attention to synchronicities and signs in your daily life">>
            ELSE <<>>
        suit ==
            IF dominantSuit = "cups"
            THEN <<"Focus on emotional healing and nurturing relationships">>
            ELSE IF dominantSuit = "wands"
            THEN <<"Take inspired action on creative projects and passions">>
            ELSE IF dominantSuit = "swords"
            THEN <<"Practice clear communication and mental clarity">>
            ELSE IF dominantSuit = "pentacles"
            THEN <<"Focus on practical matters and building stable foundations">>
            ELSE <<>>
        balance ==
            IF Includes(keywords, "balance")
            THEN <<"Seek balance and moderation in all areas of life">>
            ELSE <<>>
        transformation ==
            IF Includes(keywords, "transformation")
            THEN <<"Embrace change as an opportunity for growth">>
            ELSE <<>>
    IN  major \o suit \o transformation \o balance

\* the actions pushed before the final slice
candidateActions(majorCount, dominantSuit, keywords) ==
    LET major ==
            IF majorCount >= 2
            THEN <<"Pay attention to synchronicities and signs in your daily life">>
            ELSE <<>>
        suit ==
            IF dominantSuit = "cups"
            THEN <<"Focus on emotional healing and nurturing relationships">>
            ELSE IF dominantSuit = "wands"
            THEN <<"Take inspired action on creative projects and passions">>
            ELSE IF dominantSuit = "swords"
            THEN <<"Practice clear communication and mental clarity">>
            ELSE IF dominantSuit = "pentacles"
            THEN <<"Focus on practical matters and building stable foundations">>
            ELSE <<>>
        balance ==
            IF Includes(keywords, "balance")
            THEN <<"Seek balance and moderation in all areas of life">>
            ELSE <<>>
        transformation ==
            IF Includes(keywords, "transformation")
            THEN <<"Embrace change as an opportunity for growth">>
            ELSE <<>>
    IN  major \o suit \o balance \o transformation

\* mutant of generateSuggestedActions: the final slice(0, 3) is missing
generateSuggestedActionsUncut(majorCount, dominantSuit, keywords) ==
    candidateActions(majorCount, dominantSuit, keywords)

generateSuggestedActions(majorCount, dominantSuit, keywords) ==
    Slice0(candidateActions(majorCount, dominantSuit, keywords), 3)

\* placedCards.map(pc => cardMap.get(pc.cardId)!).filter(Boolean)
resolvedCards(placed, cardMap) ==
    LET resolves(pc) == cardMapHas(cardMap, pc.cardId)
        resolved == SelectSeq(placed, resolves)
    IN  [i \in 1..Len(resolved) |-> cardMapGet(cardMap, resolved[i].cardId)]

\* mutant of countMajorArcana: a Major card placed twice is counted once
countMajorArcanaDistinct(cards) ==
    Cardinality({cards[i].id : i \in {j \in 1..Len(cards) : cards[j].arcana = "Major"}})

\* cards.filter(c => c.arcana === "Major").length
countMajorArcana(cards) ==
    LET isMajor(c) == c.arcana = "Major"
    IN  Len(SelectSeq(cards, isMajor))

\* placedCards.filter(pc => pc.orientation === "reversed").length
countReversed(placed) ==
    LET isReversed(pc) == pc.orientation = "reversed"
    IN  Len(SelectSeq(placed, isReversed))

\* mutant of findDominantSuit: of the suits with the highest count the one
\* that entered the tally last is taken
findDominantSuitLatest(cards) ==
    LET hasSuit(c) == Truthy(c.suit)
        suited == SelectSeq(cards, hasSuit)
        suitCounts == countAll([i \in 1..Len(suited) |-> suited[i].suit], <<>>)
        best == {i \in 1..Len(suitCounts) :
                    \A j \in 1..Len(suitCounts) : suitCounts[j][2] <= suitCounts[i][2]}
    IN  IF suitCounts = <<>> THEN Undefined
        ELSE suitCounts[CHOOSE i \in best : \A j \in best : j <= i][1]

\* the suit tally and its first entry after the descending sort
findDominantSuit(cards) ==
    LET hasSuit(c) == Truthy(c.suit)
        suited == SelectSeq(cards, hasSuit)
        suitCounts == countAll([i \in 1..Len(suited) |-> suited[i].suit], <<>>)
        sortedSuits == sortDesc(suitCounts)
    IN  IF sortedSuits = <<>> THEN Undefined ELSE sortedSuits[1][1]

\* mutant of findTopKeywords: the tally is cut to 5 without being sorted
findTopKeywordsUnsorted(cards) ==
    LET keywordCounts == countAll(flatKeywords(cards), <<>>)
        top == Slice0(keywordCounts, 5)
    IN  [i \in 1..Len(top) |-> top[i][1]]

\* the keyword tally, sorted descending, cut to 5, keys only
findTopKeywords(cards) ==
    LET keywordCounts == countAll(flatKeywords(cards), <<>>)
        top == Slice0(sortDesc(keywordCounts), 5)
    IN  [i \in 1..Len(top) |-> top[i][1]]

\* mutant of generateOverallAnalysis: the modifier of the first active rule
\* whose cards are all placed is added to the summary
generateOverallAnalysisWithRules(placed, cardMap, rules) ==
    LET cards == resolvedCards(placed, cardMap)
        majorArcanaCount == countMajorArcana(cards)
        reversedCount == countReversed(placed)
        dominantSuit == findDominantSuit(cards)
        topKeywords == findTopKeywords(cards)
        applies(rule) ==
            /\ rule.isActive
            /\ \A k \in 1..Len(rule.cardIds) :
                  \E i \in 1..Len(placed) : placed[i].cardId = rule.cardIds[k]
        applying == SelectSeq(rules, applies)
        ruleNote == IF applying = <<>> THEN <<>> ELSE <<" ">> \o applying[1].modifier
    IN  [summary |-> generateSummary(majorArcanaCount, dominantSuit, reversedCount, Len(placed))
                        \o ruleNote,
         keywords |-> topKeywords,
         confidenceHints |-> generateConfidenceHints(majorArcanaCount, dominantSuit, reversedCount),
         suggestedActions |-> generateSuggestedActions(majorArcanaCount, dominantSuit, topKeywords),
         dominantSuit |-> dominantSuit,
         majorArcanaCount |-> majorArcanaCount,
         reversedCount |-> reversedCount]

generateOverallAnalysis(placed, cardMap, rules) ==
    LET cards == resolvedCards(placed, cardMap)
        majorArcanaCount == countMajorArcana(cards)
        reversedCount == countReversed(placed)
        dominantSuit == findDominantSuit(cards)
        topKeywords == findTopKeywords(cards)
    IN  [summary |-> generateSummary(majorArcanaCount, dominantSuit, reversedCount, Len(placed)),
         keywords |-> topKeywords,
         confidenceHints |-> generateConfidenceHints(majorArcanaCount, dominantSuit, reversedCount),
         suggestedActions |-> generateSuggestedActions(majorArcanaCount, dominantSuit, topKeywords),
         dominantSuit |-> dominantSuit,
         majorArcanaCount |-> majorArcanaCount,
         reversedCount |-> reversedCount]

\* the Error the callback of placedCards.map throws for one entry, <<>> if none
entryError(sp, cardMap, placedCard) ==
    IF ~cardMapHas(cardMap, placedCard.cardId)
    THEN <<"Card not found: ", placedCard.cardId>>
    ELSE IF ~positionFound(sp, placedCard.position)
    THEN <<"Position not found: ", ToString(placedCard.position)>>
    ELSE <<>>

\* the object the callback of placedCards.map returns for one entry
interpretPosition(sp, placed, cardMap, placedCard, reversalMode) ==
    LET card == cardMapGet(cardMap, placedCard.cardId)
        position == positionFind(sp, placedCard.position)
        baseInterpretation == getBaseInterpretation(card, placedCard.orientation, reversalMode)
        positionModifier == getPositionModifier(position, card, placedCard.orientation)
        adjacencyNotes == getAdjacencyInfluence(placed, placedCard, cardMap, sp)
    IN  [slotName |-> position.name,
         cardId |-> card.id,
         orientation |-> placedCard.orientation,
         interpretationShort |->
            composeShortInterpretation(position, card, placedCard.orientation,
                                       baseInterpretation.short, positionModifier),
         interpretationLong |->
            composeLongInterpretation(position, card, placedCard.orientation,
                                      baseInterpretation.long, positionModifier,
                                      adjacencyNotes)]

\* mutant of resolveReversalMode: the default is "strong"
resolveReversalModeStrong(opts) ==
    LET optMode == IF opts.given THEN opts.reversalMode ELSE Undefined
    IN  IF Truthy(optMode) THEN optMode ELSE "strong"

\* options?.reversalMode || "soft"
resolveReversalMode(opts) ==
    LET optMode == IF opts.given THEN opts.reversalMode ELSE Undefined
    IN  IF Truthy(optMode) THEN optMode ELSE "soft"

\* mutant of mapPositions: the entries are keyed by position, so that of two
\* placed cards on one position only the last one is interpreted
mapPositionsLastWins(sp, placed, cardMap, reversalMode) ==
    LET firstAt(i) == \A j \in 1..(i - 1) : placed[j].position # placed[i].position
        lastAt(p) ==
            CHOOSE i \in 1..Len(placed) :
                /\ placed[i].position = p
                /\ \A j \in (i + 1)..Len(placed) : placed[j].position # p
        slots == SelectSeq([i \in 1..Len(placed) |-> i], firstAt)
    IN  [k \in 1..Len(slots) |->
            interpretPosition(sp, placed, cardMap,
                              placed[lastAt(placed[slots[k]].position)], reversalMode)]

\* mutant of mapPositions: a card placed more than once is interpreted only
\* where it is placed first
mapPositionsOncePerCard(sp, placed, cardMap, reversalMode) ==
    LET firstOf(i) == \A j \in 1..(i - 1) : placed[j].cardId # placed[i].cardId
        kept == SelectSeq([i \in 1..Len(placed) |-> i], firstOf)
    IN  [k \in 1..Len(kept) |->
            interpretPosition(sp, placed, cardMap, placed[kept[k]], reversalMode)]

\* placedCards.map(...) when no callback throws: one entry per placed card
mapPositions(sp, placed, cardMap, reversalMode) ==
    [i \in 1..Len(placed) |->
        interpretPosition(sp, placed, cardMap, placed[i], reversalMode)]

\* the InterpretationResult assembled when no callback throws
buildResult(sp, placed, cardMap, rules, reversalMode) ==
    LET positions == mapPositions(sp, placed, cardMap, reversalMode)
        analysis == generateOverallAnalysis(placed, cardMap, rules)
    IN  [positions |-> positions,
         overallSummary |-> analysis.summary,
         keywords |-> analysis.keywords,
         confidenceHints |-> analysis.confidenceHints,
         suggestedActions |-> analysis.suggestedActions,
         dominantSuit |-> analysis.dominantSuit,
         majorArcanaCount |-> analysis.majorArcanaCount,
         reversedCount |-> analysis.reversedCount]

\* mutant of interpretReading: a placed card whose card or position does not
\* resolve is skipped instead of failing the call
interpretReadingSkipping(sp, placed, cards, rules, opts) ==
    LET resolves(pc) == entryError(sp, cards, pc) = <<>>
    IN  [rejected |-> <<>>,
         fulfilled |-> <<buildResult(sp, SelectSeq(placed, resolves), cards, rules,
                                     resolveReversalMode(opts))>>]

\* what the promise of interpretReading settles to: rejected holds the Error
\* message when it rejects, fulfilled holds the InterpretationResult when it
\* resolves; exactly one of the two is non-empty.  The map callback runs in
\* input order, so the first entry that throws decides the Error.
interpretReading(sp, placed, cards, rules, opts) ==
    LET cardMap == cards
        reversalMode == resolveReversalMode(opts)
        bad == {i \in 1..Len(placed) : entryError(sp, cardMap, placed[i]) # <<>>}
    IN  IF bad # {}
        THEN LET first == CHOOSE i \in bad : \A j \in bad : i <= j
             IN  [rejected |-> <<entryError(sp, cardMap, placed[first])>>,
                  fulfilled |-> <<>>]
        ELSE [rejected |-> <<>>,
              fulfilled |-> <<buildResult(sp, placed, cardMap, rules, reversalMode)>>]

-----------------------------------------------------------------------------
(* shuffleDeck and dealCards.  Every Math.random() call returns a value in
   [0, 1); the model draws it from the fractions r / RandomResolution. *)

\* the numerators of the values Math.random() may return
RandomValues == 0..(RandomResolution - 1)

\* mutant of randomIndex: the random value is scaled by i instead of i + 1
randomIndexShort(r, i) == (r * i) \div RandomResolution

\* Math.floor(Math.random() * (i + 1))
randomIndex(r, i) == (r * (i + 1)) \div RandomResolution

\* the values j may take at loop index i
IndexDraws(i) == {randomIndex(r, i) : r \in RandomValues}

\* mutant of swap: the element at i is overwritten and not moved to j
swapOverwriting(arr, i, j) == [arr EXCEPT ![i + 1] = arr[j + 1]]

\* [shuffled[i], shuffled[j]] = [shuffled[j], shuffled[i]], i and j zero-based
swap(arr, i, j) == [arr EXCEPT ![i + 1] = arr[j + 1], ![j + 1] = arr[i + 1]]

\* the loop  for (let i = shuffled.length - 1; i > 0; i--)  from index i on,
\* js[i] being the j drawn at index i
RECURSIVE shuffleLoop(_, _, _)
shuffleLoop(arr, i, js) ==
    IF i > 0 THEN shuffleLoop(swap(arr, i, js[i]), i - 1, js) ELSE arr

\* the sequences of indices a shuffle of n cards may draw, one per loop index
DrawSequences(n) ==
    {js \in [1..(n - 1) -> 0..(n - 1)] : \A i \in 1..(n - 1) : js[i] \in IndexDraws(i)}

\* shuffleDeck(cards) when its draws are js
shuffleDeck(deck, js) == shuffleLoop(deck, Len(deck) - 1, js)

\* Math.random() > 0.7
drawnReversed(r) == 10 * r > 7 * RandomResolution

\* the outcomes of the reversal draw
ReversalDraws == {drawnReversed(r) : r \in RandomValues}

\* mutant of dealCards: the position of an entry is its offset in the deal
dealCardsByOffset(shuffledCards, sp, flips) ==
    LET dealtTo == Slice0(sp.positions, Len(shuffledCards))
    IN  [index \in 1..Len(dealtTo) |->
            [cardId |-> shuffledCards[index].id,
             orientation |-> IF flips[index] THEN "reversed" ELSE "upright",
             position |-> index - 1]]

\* dealCards(shuffledCards, spread) when the reversal draw of entry k comes
\* out flips[k]
dealCards(shuffledCards, sp, flips) ==
    LET dealtTo == Slice0(sp.positions, Len(shuffledCards))
    IN  [index \in 1..Len(dealtTo) |->
            [cardId |-> shuffledCards[index].id,
             orientation |-> IF flips[index] THEN "reversed" ELSE "upright",
             position |-> dealtTo[index].index]]

-----------------------------------------------------------------------------
(* The calls made of the engine *)

\* no interpretReading call has settled on the current arguments
NoOutcome == [rejected |-> <<>>, fulfilled |-> <<>>]

\* the lists of at most n placed cards, each any card id on any position
PlacedLists(n) == UNION {[1..k -> PlacedCardValues] : k \in 0..n}

\* the lists of at most n placed cards laid out along the spread as dealCards
\* lays them out: entry k is a catalog card on the spread's k-th position
LaidOutLists(sp, n) ==
    LET CatalogCardIds == {allCards[i].id : i \in 1..Len(allCards)}
        longest == IF Len(sp.positions) < n THEN Len(sp.positions) ELSE n
    IN  UNION {
            {[k \in 1..len |->
                [cardId |-> ids[k], orientation |-> ors[k],
                 position |-> sp.positions[k].index]] :
                    ids \in [1..len -> CatalogCardIds],
                    ors \in [1..len -> Orientations]} :
            len \in 0..longest}

\* nothing has been shuffled
NotShuffled == <<>>

\* no request has been sent
NoRequest == [spreadId |-> "", cards |-> <<>>,
              options |-> [given |-> FALSE, reversalMode |-> Undefined]]

\* the route has not answered
NoResponse == [status |-> 0, body |-> <<>>]

\* useState(null): the sequence of no value
NullState == <<>>

\* no toast has been raised
NoToast == ""

\* the Home page as it mounts: the initial values of its useState calls
HomeMounted ==
    /\ selectedSpread = NullState
    /\ shown = NullState
    /\ isManualMode = FALSE
    /\ inFlight = <<>>
    /\ toasted = NoToast

Init ==
    /\ spread \in Spreads
    /\ placedCards \in PlacedLists(MaxPlaced) \cup LaidOutLists(spread, MaxLaidOut)
    /\ catalog = allCards
    /\ combinationRules \in RuleCatalogs
    /\ options \in OptionValues
    /\ outcome = NoOutcome
    /\ shuffled = NotShuffled
    /\ stage = "placed"
    /\ request = NoRequest
    /\ response = NoResponse
    /\ HomeMounted

\* await interpretReading(spread, placedCards, catalog, combinationRules, options):
\* the promise of the call settles, once
Interpret ==
    /\ outcome = NoOutcome
    /\ outcome' = interpretReading(spread, placedCards, catalog, combinationRules, options)
    /\ UNCHANGED <<spread, placedCards, catalog, combinationRules, options,
                   shuffled, stage, request, response, homeVars>>

Next == Interpret

Spec == Init /\ [][Next]_vars

-----------------------------------------------------------------------------
(* The calls made of the engine on cards that crowd one position *)

\* a catalog with two cards of one suit
ClusterCards == <<TheFool, AceOfCups, TwoOfCups>>

\* a catalog with two Major cards and two cards of a suit without a theme
MixedCards == <<TheFool, TheMagician, AceOfCoins, TwoOfCoins>>

\* the position of the five card spread the stacked cards are placed on
StackedOn == 1

\* the lists of at most n placed cards of the catalog, all on one position
StackedLists(cat, n) ==
    UNION {[1..k -> [cardId : {cat[i].id : i \in 1..Len(cat)},
                     orientation : Orientations,
                     position : {StackedOn}]] : k \in 0..n}

\* the options arguments of these calls
NearOptions ==
    {[given |-> FALSE, reversalMode |-> Undefined],
     [given |-> TRUE, reversalMode |-> "strong"]}

NearInit ==
    /\ spread = FiveCard
    /\ \/ catalog = ClusterCards /\ placedCards \in StackedLists(ClusterCards, MaxStacked)
       \/ catalog = MixedCards /\ placedCards \in StackedLists(MixedCards, MaxMixed)
    /\ combinationRules = <<>>
    /\ options \in NearOptions
    /\ outcome = NoOutcome
    /\ shuffled = NotShuffled
    /\ stage = "placed"
    /\ request = NoRequest
    /\ response = NoResponse
    /\ HomeMounted

SpecNear == NearInit /\ [][Next]_vars

-----------------------------------------------------------------------------
(* The calls made of the shuffler and the dealer *)

\* the cards a deck is cut from
FullDeck == <<TheFool, AceOfCups, AceOfWands, TwoOfCups, AceOfCoins>>

\* a deck that holds the same card twice
RepeatedDeck == <<AceOfCups, TheFool, AceOfCups>>

\* the decks handed to shuffleDeck
Decks ==
    {SubSeq(FullDeck, 1, n) : n \in 0..(IF MaxDeck < Len(FullDeck) THEN MaxDeck ELSE Len(FullDeck))}
        \cup {RepeatedDeck}

DealInit ==
    /\ spread \in Spreads
    /\ catalog \in Decks
    /\ placedCards = <<>>
    /\ combinationRules = <<>>
    /\ options = [given |-> FALSE, reversalMode |-> Undefined]
    /\ outcome = NoOutcome
    /\ shuffled = NotShuffled
    /\ stage = "loaded"
    /\ request = NoRequest
    /\ response = NoResponse
    /\ HomeMounted

\* const shuffled = shuffleDeck(cards)
ShuffleDeck ==
    /\ stage = "loaded"
    /\ \E js \in DrawSequences(Len(catalog)) : shuffled' = shuffleDeck(catalog, js)
    /\ stage' = "shuffled"
    /\ UNCHANGED <<spread, placedCards, catalog, combinationRules, options, outcome,
                   request, response, homeVars>>

\* const dealt = dealCards(shuffled, selectedSpread)
DealCards ==
    /\ stage = "shuffled"
    /\ \E flips \in [1..Len(shuffled) -> ReversalDraws] :
          placedCards' = dealCards(shuffled, spread, flips)
    /\ stage' = "dealt"
    /\ UNCHANGED <<spread, catalog, combinationRules, options, outcome, shuffled,
                   request, response, homeVars>>

\* interpretReading(spread, dealt, cards, rules, options): the engine is
\* called on what was dealt, with the deck as its catalog
InterpretDealt ==
    /\ stage = "dealt"
    /\ \E rules \in RuleCatalogs, opts \in OptionValues :
          /\ combinationRules' = rules
          /\ options' = opts
          /\ outcome' = interpretReading(spread, placedCards, catalog, rules, opts)
    /\ stage' = "interpreted"
    /\ UNCHANGED <<spread, placedCards, catalog, shuffled, request, response, homeVars>>

DealNext == ShuffleDeck \/ DealCards \/ InterpretDealt

SpecDeal == DealInit /\ [][DealNext]_vars

-----------------------------------------------------------------------------
(* Vocabulary of the properties *)

\* an interpretReading call has settled on the current arguments
Settled == outcome # NoOutcome

\* the call resolved with an InterpretationResult
Fulfilled == outcome.fulfilled # <<>>

\* the call rejected with an Error
Rejected == outcome.rejected # <<>>

\* the InterpretationResult of a fulfilled call
Result == outcome.fulfilled[1]

CatalogIds == {catalog[k].id : k \in 1..Len(catalog)}

SpreadIndices == {spread.positions[k].index : k \in 1..Len(spread.positions)}

\* every placed card names a catalog card and a position of the spread
ValidInput ==
    \A i \in 1..Len(placedCards) :
        /\ placedCards[i].cardId \in CatalogIds
        /\ placedCards[i].position \in SpreadIndices

\* the catalog card with the given id
CardOf(id) == CHOOSE c \in {catalog[k] : k \in 1..Len(catalog)} : c.id = id

\* the position of the current spread with the given index
PositionOf(n) ==
    CHOOSE q \in {spread.positions[k] : k \in 1..Len(spread.positions)} : q.index = n

-----------------------------------------------------------------------------
(* C1: on valid input the call resolves, its positions list has exactly one
   entry per placed card, and entry i carries the cardId and the orientation
   of placedCards[i]: the input order is preserved. *)
C1_PositionsFollowInput ==
    (Settled /\ ValidInput) =>
        /\ Fulfilled
        /\ Len(Result.positions) = Len(placedCards)
        /\ \A i \in 1..Len(placedCards) :
              /\ Result.positions[i].cardId = placedCards[i].cardId
              /\ Result.positions[i].orientation = placedCards[i].orientation

\* a settled call on two valid placed cards that share a position and differ
\* in card and orientation
C1_Witness ==
    /\ Settled /\ ValidInput
    /\ Len(placedCards) = 2
    /\ placedCards[1].position = placedCards[2].position
    /\ placedCards[1].cardId # placedCards[2].cardId
    /\ placedCards[1].orientation # placedCards[2].orientation

(* C2: when some placed card names a card that is not in the catalog or a
   position that is not an index of the spread, the whole call fails: it
   rejects with a card-not-found or position-not-found Error and yields no
   InterpretationResult, not even one for the entries that do resolve. *)
C2_FailsAtomically ==
    (Settled /\ ~ValidInput) =>
        /\ ~Fulfilled
        /\ Len(outcome.rejected) = 1
        /\ outcome.rejected[1][1] \in {"Card not found: ", "Position not found: "}
        /\ (\A i \in 1..Len(placedCards) : placedCards[i].cardId \in CatalogIds)
              => outcome.rejected[1][1] = "Position not found: "
        /\ (\A i \in 1..Len(placedCards) : placedCards[i].position \in SpreadIndices)
              => outcome.rejected[1][1] = "Card not found: "

\* a settled call whose first placed card resolves and whose second names a
\* position the spread does not have
C2_Witness ==
    /\ Settled
    /\ Len(placedCards) = 2
    /\ placedCards[1].cardId \in CatalogIds
    /\ placedCards[1].position \in SpreadIndices
    /\ placedCards[2].cardId \in CatalogIds
    /\ placedCards[2].position \notin SpreadIndices
    /\ Rejected

(* C4: combinationRules has no effect on the outcome: a call that differs
   from the one made only in the rule catalog it passes (no rules, an active
   rule whose cards are placed, an inactive rule of another weight and
   condition before it) settles to an outcome that is the same in every
   field. *)
C4_RulesHaveNoEffect ==
    Settled =>
        \A rules \in RuleCatalogs \ {combinationRules} :
            interpretReading(spread, placedCards, catalog, rules, options) = outcome

\* a fulfilled call that was passed an active rule all of whose cards are placed
C4_Witness ==
    /\ Settled /\ Fulfilled
    /\ \E r \in 1..Len(combinationRules) :
          /\ combinationRules[r].isActive
          /\ \A k \in 1..Len(combinationRules[r].cardIds) :
                \E i \in 1..Len(placedCards) :
                    placedCards[i].cardId = combinationRules[r].cardIds[k]

\* the number of fragments of "{position.name}: {card.name} ({orientation}) [U+2014] "
\* and of "{card.name} in {position.name} ({orientation}) [U+2014] "
HeaderLen == Len(composeShortInterpretation([name |-> ""], [name |-> ""], "", <<>>, <<>>))

\* what follows the header in a text
AfterHeader(text) == SubSeq(text, HeaderLen + 1, Len(text))

\* text begins with prefix
StartsWith(text, prefix) ==
    /\ Len(prefix) <= Len(text)
    /\ SubSeq(text, 1, Len(prefix)) = prefix

\* the long text after its header is exactly base, then a space and the
\* position modifier sentence ("As ...")
BaseLongIs(text, base) == StartsWith(AfterHeader(text), base \o <<" ", "As ">>)

\* the reversal mode is strong
StrongMode == options.given /\ options.reversalMode = "strong"

(* C5: for an upright placed card, under either reversal mode, the base
   short and long texts are the card's uprightShort and uprightLong verbatim;
   for a reversed placed card under reversalMode strong they are the card's
   reversedShort and reversedLong verbatim; nothing is appended to them. *)
C5_VerbatimBaseTexts ==
    Fulfilled =>
        \A i \in 1..Len(placedCards) :
            LET pc == placedCards[i]
                card == CardOf(pc.cardId)
                entry == Result.positions[i]
            IN  /\ pc.orientation = "upright" =>
                      /\ AfterHeader(entry.interpretationShort) = card.uprightShort
                      /\ BaseLongIs(entry.interpretationLong, card.uprightLong)
                /\ (pc.orientation = "reversed" /\ StrongMode) =>
                      /\ AfterHeader(entry.interpretationShort) = card.reversedShort
                      /\ BaseLongIs(entry.interpretationLong, card.reversedLong)

\* a fulfilled call under reversalMode strong with an upright and a reversed card
C5_Witness ==
    /\ Fulfilled /\ StrongMode
    /\ \E i, j \in 1..Len(placedCards) :
          /\ placedCards[i].orientation = "upright"
          /\ placedCards[j].orientation = "reversed"

(* C6: for a reversed placed card when reversalMode is soft, or when options
   or options.reversalMode is omitted, the base short text is reversedShort
   followed by " (blocked or internal)" and the base long text is
   reversedLong followed by the sentence " The energy of {card.name} is
   present but may be blocked, internalized, or manifesting in a subtle way." *)
C6_SoftReversalSuffixes ==
    Fulfilled =>
        \A i \in 1..Len(placedCards) :
            LET pc == placedCards[i]
                card == CardOf(pc.cardId)
                entry == Result.positions[i]
            IN  (pc.orientation = "reversed" /\ ~StrongMode) =>
                    /\ AfterHeader(entry.interpretationShort)
                          = card.reversedShort \o <<" (blocked or internal)">>
                    /\ BaseLongIs(entry.interpretationLong,
                          card.reversedLong \o <<" The energy of ", card.name,
                          " is present but may be blocked, internalized, or manifesting in a subtle way.">>)

\* a fulfilled call without an options argument on a list with a reversed card
C6_Witness ==
    /\ Fulfilled
    /\ ~options.given
    /\ \E i \in 1..Len(placedCards) : placedCards[i].orientation = "reversed"

\* entry a of placedCards is in the adjacency set computed for entry b
InAdjacencyOf(a, b) ==
    Includes(getAdjacentCards(placedCards, placedCards[b], spread), placedCards[a])

(* C7: adjacency is symmetric: for any two entries A and B of the
   placedCards of a call, A is in the adjacency set computed for B exactly
   when B is in the adjacency set computed for A. *)
C7_AdjacencySymmetric ==
    Settled =>
        \A a, b \in 1..Len(placedCards) : InAdjacencyOf(a, b) <=> InAdjacencyOf(b, a)

\* a settled call on a list with a pair of adjacent entries and a pair of
\* different cards two positions apart
C7_Witness ==
    /\ Settled
    /\ \E a, b \in 1..Len(placedCards) : InAdjacencyOf(a, b) /\ InAdjacencyOf(b, a)
    /\ \E a, b \in 1..Len(placedCards) :
          /\ placedCards[a].cardId # placedCards[b].cardId
          /\ placedCards[a].position - placedCards[b].position >= 2
          /\ ~InAdjacencyOf(a, b) /\ ~InAdjacencyOf(b, a)

\* the number of placed cards whose card is Minor arcana
MinorPlaced ==
    Cardinality({i \in 1..Len(placedCards) : CardOf(placedCards[i].cardId).arcana = "Minor"})

(* C8: in every result, majorArcanaCount plus the number of placed cards
   whose card is Minor arcana is the number of placed cards, a card placed
   twice counting twice; so 0 <= majorArcanaCount <= placedCards.length. *)
C8_MajorPlusMinorIsTotal ==
    Fulfilled =>
        /\ Result.majorArcanaCount + MinorPlaced = Len(placedCards)
        /\ 0 <= Result.majorArcanaCount
        /\ Result.majorArcanaCount <= Len(placedCards)

\* a fulfilled call on a list that holds one Major card twice and a Minor card
C8_Witness ==
    /\ Fulfilled
    /\ MinorPlaced >= 1
    /\ \E i, j \in 1..Len(placedCards) :
          /\ i # j
          /\ placedCards[i].cardId = placedCards[j].cardId
          /\ CardOf(placedCards[i].cardId).arcana = "Major"

(* C9: the suggestedActions list of a result never has more than 3 entries. *)
C9_AtMostThreeActions ==
    Fulfilled => Len(Result.suggestedActions) <= 3

\* a fulfilled call in which all four suggestions are triggered: two Major
\* cards, a dominant suit, and both keywords among the top keywords
C9_Witness ==
    /\ Fulfilled
    /\ Result.majorArcanaCount >= 2
    /\ Result.dominantSuit \in {"cups", "wands", "swords", "pentacles"}
    /\ Includes(Result.keywords, "balance")
    /\ Includes(Result.keywords, "transformation")
    /\ Len(Result.suggestedActions) = 3

(* C10: with an empty placedCards list the call succeeds with positions = [],
   majorArcanaCount = 0, reversedCount = 0, dominantSuit undefined, and an
   overallSummary that is the closing sentence and nothing else. *)
C10_EmptyReading ==
    (Settled /\ placedCards = <<>>) =>
        /\ Fulfilled
        /\ Result.positions = <<>>
        /\ Result.majorArcanaCount = 0
        /\ Result.reversedCount = 0
        /\ Result.dominantSuit = Undefined
        /\ Result.overallSummary =
              <<"Trust your intuition as you interpret these messages for your path forward.">>

\* a settled call on the empty list
C10_Witness ==
    /\ Settled
    /\ placedCards = <<>>
    /\ Len(outcome.fulfilled) = 1

\* the base short text the spec gives a placed card of the current call
ExpectedBaseShort(pc) ==
    LET card == CardOf(pc.cardId)
    IN  IF pc.orientation = "upright" THEN card.uprightShort
        ELSE IF StrongMode THEN card.reversedShort
        ELSE card.reversedShort \o <<" (blocked or internal)">>

\* fragments that occur only in a position modifier or an adjacency sentence
ModifierFragments ==
    {"As ", ", this energy is ", " and suggests ", "Strong ", " influence emphasizes ",
     "Multiple Major Arcana nearby indicate significant life themes and spiritual lessons.",
     "Surrounded by reversed cards suggests internal work or blocked energies."}

(* C11: each entry's interpretationShort is exactly
   "{position.name}: {card.name} ({orientation}) [U+2014] {base.short}" for
   the resolved position and card; it holds neither the position modifier
   sentence nor an adjacency sentence. *)
C11_ShortTextFormat ==
    Fulfilled =>
        \A i \in 1..Len(placedCards) :
            LET pc == placedCards[i]
                short == Result.positions[i].interpretationShort
            IN  /\ short = <<PositionOf(pc.position).name, ": ", CardOf(pc.cardId).name,
                             " (", pc.orientation, ") ", EmDash, " ">>
                           \o ExpectedBaseShort(pc)
                /\ \A k \in 1..Len(short) : short[k] \notin ModifierFragments

\* The Fool upright on the only position, "Focus", of the single card spread,
\* interpreted with default options: "Focus: The Fool (upright) [U+2014] New beginnings."
C11_Witness ==
    /\ Fulfilled
    /\ spread = SingleCard
    /\ ~options.given
    /\ placedCards = <<[cardId |-> "major-0", orientation |-> "upright", position |-> 0]>>
    /\ Result.positions[1].interpretationShort =
          <<"Focus", ": ", "The Fool", " (", "upright", ") ", EmDash, " ", "New beginnings.">>

-----------------------------------------------------------------------------
(* POST /api/interpret of server/routes.ts and the storage it reads *)

\* SQL NULL in a row of the database
Null == "$null"

\* dbValue ?? undefined
orUndefined(dbValue) == IF dbValue = Null THEN Undefined ELSE dbValue

\* the rows of the cards table: a card without suit has suit NULL
storedCards ==
    [k \in 1..Len(allCards) |->
        [allCards[k] EXCEPT !.suit = IF @ = Undefined THEN Null ELSE @]]

\* the rows of the spreads table, with the nullable columns of a spread
storedSpreads ==
    {[id |-> sp.id, name |-> sp.name, positions |-> sp.positions,
      description |-> Null, layoutHints |-> Null] : sp \in Spreads \cup HomeSpreads}

\* the rows of the combination rules table, one of them with no condition
storedRules == <<WandsNearby, [FoolAndCups EXCEPT !.condition = Null]>>

\* storage.getSpread(id): the rows with this id, none when the spread is
\* undefined
getSpread(id) == {row \in storedSpreads : row.id = id}

\* storage.getAllCards()
getAllCards == storedCards

\* storage.getAllCombinationRules(): the active rules
getAllCombinationRules == SelectSeq(storedRules, LAMBDA r : r.isActive)

convertDbSpreadToFrontendSpread(dbSpread) ==
    [dbSpread EXCEPT !.description = orUndefined(@), !.layoutHints = orUndefined(@)]

convertDbCardToFrontendCard(dbCard) == [dbCard EXCEPT !.suit = orUndefined(@)]

convertDbCombinationRuleToFrontendRule(dbRule) ==
    [dbRule EXCEPT !.condition = orUndefined(@)]

\* interpretRequestSchema.parse(req.body) does not throw: spreadId is a string
schemaAccepts(body) == body.spreadId # Undefined

\* the placed cards of the request that the card map of the route does not have
unknownCards(placed, rows) ==
    SelectSeq(placed, LAMBDA placedCard : ~\E k \in 1..Len(rows) : rows[k].id = placedCard.cardId)

\* the catch block of the route: the engine's Error is not a ZodError
answerEngineError(message) ==
    [status |-> 500, body |-> [message |-> <<"Failed to interpret reading">>]]

\* app.post("/api/interpret", ...): the response to a request with this body
postInterpret(body) ==
    IF ~schemaAccepts(body)
    THEN [status |-> 400, body |-> [message |-> <<"Invalid interpretation request">>]]
    ELSE
    IF getSpread(body.spreadId) = {}
    THEN [status |-> 404, body |-> [message |-> <<"Spread not found">>]]
    ELSE
        LET dbSpread == CHOOSE row \in getSpread(body.spreadId) : TRUE
            rows == getAllCards
            missing == unknownCards(body.cards, rows)
        IN  IF missing # <<>>
            THEN [status |-> 400,
                  body |-> [message |-> <<"Card not found: ", missing[1].cardId>>]]
            ELSE
            LET frontendSpread == convertDbSpreadToFrontendSpread(dbSpread)
                frontendCards ==
                    [k \in 1..Len(rows) |-> convertDbCardToFrontendCard(rows[k])]
                rules == getAllCombinationRules
                frontendRules ==
                    [k \in 1..Len(rules) |-> convertDbCombinationRuleToFrontendRule(rules[k])]
                interpretation ==
                    interpretReading(frontendSpread, body.cards, frontendCards,
                                     frontendRules, body.options)
            IN  IF interpretation.rejected # <<>>
                THEN answerEngineError(interpretation.rejected[1])
                ELSE [status |-> 200, body |-> interpretation.fulfilled[1]]

\* a body that the request schema rejects: it has no spreadId
MalformedBody == [spreadId |-> Undefined, cards |-> <<>>,
                  options |-> [given |-> FALSE, reversalMode |-> Undefined]]

\* the bodies sent to the route
RequestBodies ==
    [spreadId : {sp.id : sp \in Spreads} \cup {"no-such-spread"},
     cards : PlacedLists(MaxPlaced),
     options : OptionValues] \cup {MalformedBody}

RouteInit ==
    /\ request \in RequestBodies
    /\ response = NoResponse
    /\ spread = SingleCard
    /\ placedCards = <<>>
    /\ catalog = allCards
    /\ combinationRules = <<>>
    /\ options = [given |-> FALSE, reversalMode |-> Undefined]
    /\ outcome = NoOutcome
    /\ shuffled = NotShuffled
    /\ stage = "sent"
    /\ HomeMounted

\* the route answers the request, once
PostInterpret ==
    /\ response.status = NoResponse.status
    /\ response' = postInterpret(request)
    /\ UNCHANGED <<spread, placedCards, catalog, combinationRules, options, outcome,
                   shuffled, stage, request, homeVars>>

RouteNext == PostInterpret

SpecRoute == RouteInit /\ [][RouteNext]_vars

-----------------------------------------------------------------------------
\* how often the card c occurs in the list
Occurrences(list, c) == Cardinality({k \in 1..Len(list) : list[k] = c})

\* shuffleDeck has returned
WasShuffled == stage \in {"shuffled", "dealt"}

(* C12: whatever the draws, shuffleDeck returns a permutation of its input:
   a list of the same length that holds every card as often as the input
   does; this includes the empty deck and the deck of one card. *)
C12_ShuffleIsPermutation ==
    WasShuffled =>
        /\ Len(shuffled) = Len(catalog)
        /\ \A c \in {catalog[k] : k \in 1..Len(catalog)} \cup {shuffled[k] : k \in 1..Len(shuffled)} :
              Occurrences(shuffled, c) = Occurrences(catalog, c)

\* a shuffle that moved every card of a deck of three or more cards
C12_Witness ==
    /\ stage = "shuffled"
    /\ Len(catalog) >= 3
    /\ \A k \in 1..Len(catalog) : shuffled[k] # catalog[k]

\* no card occurs twice in the deck
DistinctCards == \A c \in {catalog[k] : k \in 1..Len(catalog)} : Occurrences(catalog, c) = 1

\* the orderings of the deck
Orderings ==
    {[k \in 1..Len(catalog) |-> catalog[f[k]]] : f \in Permutations(1..Len(catalog))}

\* the draw sequences on which shuffleDeck returns the ordering p of the deck
DrawsGiving(p) == {js \in DrawSequences(Len(catalog)) : shuffleDeck(catalog, js) = p}

(* C13: shuffleDeck is an unbiased Fisher-Yates shuffle: on a deck of n
   distinct cards the index j drawn at loop index i, for i from n - 1 down
   to 1, ranges over exactly 0..i, and every one of the n! orderings of the
   deck is returned on exactly one sequence of draws. *)
C13_UnbiasedShuffle ==
    DistinctCards =>
        /\ stage = "loaded" =>
              /\ \A i \in 1..(Len(catalog) - 1) : IndexDraws(i) = 0..i
              /\ \A p \in Orderings : Cardinality(DrawsGiving(p)) = 1
        /\ stage = "shuffled" =>
              /\ shuffled \in Orderings
              /\ Cardinality(DrawsGiving(shuffled)) = 1

\* a deck of three or more distinct cards came back from shuffleDeck in
\* reverse order
C13_Witness ==
    /\ stage = "shuffled"
    /\ DistinctCards
    /\ Len(catalog) >= 3
    /\ \A k \in 1..Len(catalog) : shuffled[k] = catalog[Len(catalog) + 1 - k]

\* the smaller of two numbers
Min(a, b) == IF a < b THEN a ELSE b

(* C14: dealCards returns exactly min(shuffledCards.length,
   spread.positions.length) entries; entry i carries the id of shuffledCards[i]
   and the index of spread.positions[i], also where the indices of the spread
   leave a gap; zero cards give the empty list. *)
C14_DealFollowsSpread ==
    stage = "dealt" =>
        /\ Len(placedCards) = Min(Len(shuffled), Len(spread.positions))
        /\ \A i \in 1..Len(placedCards) :
              /\ placedCards[i].cardId = shuffled[i].id
              /\ placedCards[i].position = spread.positions[i].index
        /\ Len(shuffled) = 0 => placedCards = <<>>

\* four cards dealt along the five card spread, whose fourth position has
\* index 4, with a reversed and an upright entry
C14_Witness ==
    /\ stage = "dealt"
    /\ spread = FiveCard
    /\ Len(shuffled) = 4
    /\ Len(placedCards) = 4
    /\ placedCards[4].position = 4
    /\ placedCards[1].orientation = "reversed"
    /\ placedCards[2].orientation = "upright"

-----------------------------------------------------------------------------
\* the route has answered the request
Answered == response.status # NoResponse.status

\* the spread the request chose, when the storage has it
ChosenSpread == CHOOSE sp \in Spreads : sp.id = request.spreadId

\* a well-formed request for a stored spread names a card that no stored
\* card has
NamesUnknownCard ==
    /\ request.spreadId \in {sp.id : sp \in Spreads}
    /\ \E i \in 1..Len(request.cards) :
          request.cards[i].cardId \notin {allCards[k].id : k \in 1..Len(allCards)}

\* a well-formed request for a stored spread names a position that is not an
\* index of that spread
NamesUnknownPosition ==
    /\ request.spreadId \in {sp.id : sp \in Spreads}
    /\ \E i \in 1..Len(request.cards) :
          request.cards[i].position \notin
              {ChosenSpread.positions[k].index : k \in 1..Len(ChosenSpread.positions)}

(* C15: at POST /api/interpret both error kinds of the engine reach the HTTP
   caller as a 4xx response: a request that names an unknown cardId and a
   request that names a position which is not an index of the chosen spread
   are each answered with a status in 400..499, never with a 5xx status and
   never with 200. *)
C15_EngineErrorsAnswered4xx ==
    (Answered /\ (NamesUnknownCard \/ NamesUnknownPosition)) =>
        response.status \in 400..499

-----------------------------------------------------------------------------
\* the entries of a list as a set
Entries(list) == {list[k] : k \in 1..Len(list)}

\* the entries of placedCards other than entry b whose position is at most 1
\* away from the position of entry b
OthersNear(b) ==
    {placedCards[j] : j \in {k \in 1..Len(placedCards) :
        /\ k # b
        /\ placedCards[k].position - placedCards[b].position \in {-1, 0, 1}}}

(* C16: the adjacency set used for a placed card P is exactly the set of all
   other entries of placedCards, every entry other than P itself, whose
   position differs from the position of P by at most 1; this holds for
   every list, also one with a repeated cardId or a repeated position. *)
C16_AdjacencyIsAllOthersNear ==
    Settled =>
        \A b \in 1..Len(placedCards) :
            Entries(getAdjacentCards(placedCards, placedCards[b], spread)) = OthersNear(b)

-----------------------------------------------------------------------------
\* the entries of placedCards in the adjacency set the engine uses for entry
\* i: those of another cardId at most one position away
UsedAdjacency(i) ==
    {j \in 1..Len(placedCards) :
        /\ placedCards[j].cardId # placedCards[i].cardId
        /\ placedCards[j].position - placedCards[i].position \in {-1, 0, 1}}

\* the long text of entry i of the result
LongOf(i) == Result.positions[i].interpretationLong

\* part occurs in text as a run of fragments
ContainsText(text, part) ==
    \E k \in 1..(Len(text) - Len(part) + 1) : SubSeq(text, k, k + Len(part) - 1) = part

\* the theme the spec gives a suit
ThemeOf(suit) ==
    CASE suit = "wands" -> "passion, creativity, and spiritual growth"
      [] suit = "cups" -> "emotions, relationships, and intuition"
      [] suit = "swords" -> "thoughts, communication, and challenges"
      [] suit = "pentacles" -> "material matters, work, and practical concerns"
      [] OTHER -> "spiritual and life path themes"

SuitSentence(suit) == <<"Strong ", suit, " influence emphasizes ", ThemeOf(suit), ".">>

\* how many cards of the adjacency set of entry i have the suit of its card
SameSuitNear(i) ==
    Cardinality({j \in UsedAdjacency(i) :
        CardOf(placedCards[j].cardId).suit = CardOf(placedCards[i].cardId).suit})

\* the card of entry i has a suit
HasSuit(i) == CardOf(placedCards[i].cardId).suit \notin {Undefined, ""}

(* C17: the sentence "Strong {suit} influence emphasizes {suit theme}." is in
   the long text of an entry exactly when its card has a suit and at least 2
   cards of its adjacency set have that suit; a card without suit never gets
   it, and the theme is the fixed string of the suit, "spiritual and life
   path themes" for a suit other than wands, cups, swords and pentacles. *)
C17_SuitClustering ==
    Fulfilled =>
        \A i \in 1..Len(placedCards) :
            /\ Includes(LongOf(i), "Strong ") <=> (HasSuit(i) /\ SameSuitNear(i) >= 2)
            /\ Includes(LongOf(i), "Strong ") =>
                  ContainsText(LongOf(i), SuitSentence(CardOf(placedCards[i].cardId).suit))

\* a coins card next to two coins cards gets the sentence with the default
\* theme, and the other coins card, next to one coins card, does not
C17_Witness ==
    /\ Fulfilled
    /\ \E i, j \in 1..Len(placedCards) :
          /\ ContainsText(LongOf(i),
                <<"Strong ", "coins", " influence emphasizes ", "spiritual and life path themes", ".">>)
          /\ CardOf(placedCards[j].cardId).suit = "coins"
          /\ SameSuitNear(j) = 1
          /\ ~Includes(LongOf(j), "Strong ")

MajorSentence ==
    "Multiple Major Arcana nearby indicate significant life themes and spiritual lessons."

\* how many cards of the adjacency set of entry i are Major arcana
MajorNear(i) ==
    Cardinality({j \in UsedAdjacency(i) : CardOf(placedCards[j].cardId).arcana = "Major"})

(* C18: the sentence "Multiple Major Arcana nearby indicate significant life
   themes and spiritual lessons." is in the long text of an entry exactly
   when at least 2 cards of its adjacency set are Major arcana; the arcana of
   the card of the entry itself does not count. *)
C18_MajorClustering ==
    Fulfilled =>
        \A i \in 1..Len(placedCards) :
            Includes(LongOf(i), MajorSentence) <=> MajorNear(i) >= 2

\* a Major card next to one other Major card goes without the sentence, and
\* a Minor card next to two Major cards gets it
C18_Witness ==
    /\ Fulfilled
    /\ \E i, j \in 1..Len(placedCards) :
          /\ CardOf(placedCards[i].cardId).arcana = "Major"
          /\ MajorNear(i) = 1
          /\ ~Includes(LongOf(i), MajorSentence)
          /\ CardOf(placedCards[j].cardId).arcana = "Minor"
          /\ MajorNear(j) = 2
          /\ Includes(LongOf(j), MajorSentence)

ReversedSentence ==
    "Surrounded by reversed cards suggests internal work or blocked energies."

\* how many cards of the adjacency set of entry i are reversed
ReversedNear(i) ==
    Cardinality({j \in UsedAdjacency(i) : placedCards[j].orientation = "reversed"})

(* C19: the sentence "Surrounded by reversed cards suggests internal work or
   blocked energies." is in the long text of an entry exactly when at least 2
   cards of its adjacency set are reversed; the orientation of the entry
   itself does not count. *)
C19_ReversedClustering ==
    Fulfilled =>
        \A i \in 1..Len(placedCards) :
            Includes(LongOf(i), ReversedSentence) <=> ReversedNear(i) >= 2

\* a reversed entry next to one reversed card goes without the sentence, and
\* an upright entry next to exactly two reversed cards gets it
C19_Witness ==
    /\ Fulfilled
    /\ \E i, j \in 1..Len(placedCards) :
          /\ placedCards[i].orientation = "reversed"
          /\ ReversedNear(i) = 1
          /\ ~Includes(LongOf(i), ReversedSentence)
          /\ placedCards[j].orientation = "upright"
          /\ ReversedNear(j) = 2
          /\ Includes(LongOf(j), ReversedSentence)

\* the base long text the spec gives a placed card of the current call
ExpectedBaseLong(placed) ==
    LET card == CardOf(placed.cardId)
    IN  IF placed.orientation = "upright" THEN card.uprightLong
        ELSE IF StrongMode THEN card.reversedLong
        ELSE card.reversedLong \o <<" The energy of ", card.name,
                " is present but may be blocked, internalized, or manifesting in a subtle way.">>

\* the position modifier sentence the spec gives a placed card
ExpectedModifier(placed) ==
    <<"As ", toLowerCase(PositionOf(placed.position).name), ", this energy is ",
      IF placed.orientation = "reversed" THEN "internal or blocked"
      ELSE "manifesting externally",
      " and suggests ", toLowerCase(PositionOf(placed.position).roleHint), ".">>

\* the adjacency sentences triggered for entry i, each after a single space,
\* in the order suit, Major, reversed
ExpectedAdjacency(i) ==
    (IF HasSuit(i) /\ SameSuitNear(i) >= 2
     THEN <<" ">> \o SuitSentence(CardOf(placedCards[i].cardId).suit) ELSE <<>>)
    \o (IF MajorNear(i) >= 2 THEN <<" ", MajorSentence>> ELSE <<>>)
    \o (IF ReversedNear(i) >= 2 THEN <<" ", ReversedSentence>> ELSE <<>>)

(* C20: the long text of an entry is "{card.name} in {position.name}
   ({orientation}) [U+2014] {base.long}", then the position modifier
   sentence, then the adjacency sentences that are triggered, in the fixed
   order suit, Major, reversed; the parts are joined by single spaces and a
   sentence that is not triggered adds nothing, not even a space. *)
C20_LongTextComposition ==
    Fulfilled =>
        \A i \in 1..Len(placedCards) :
            LET placed == placedCards[i]
            IN  LongOf(i) =
                    <<CardOf(placed.cardId).name, " in ", PositionOf(placed.position).name,
                      " (", placed.orientation, ") ", EmDash, " ">>
                    \o ExpectedBaseLong(placed)
                    \o <<" ">> \o ExpectedModifier(placed)
                    \o ExpectedAdjacency(i)

\* an upright Ace of Cups for which all three sentences are triggered, in a
\* list with an entry for which the suit sentence is not
C20_Witness ==
    /\ Fulfilled
    /\ \E i, j \in 1..Len(placedCards) :
          /\ placedCards[i] = [cardId |-> "cups-1", orientation |-> "upright",
                               position |-> StackedOn]
          /\ SubSeq(LongOf(i), Len(LongOf(i)) - 9, Len(LongOf(i))) =
                <<" ", "Strong ", "cups", " influence emphasizes ",
                  "emotions, relationships, and intuition", ".",
                  " ", MajorSentence, " ", ReversedSentence>>
          /\ ~Includes(LongOf(j), "Strong ")
          /\ Includes(LongOf(j), ReversedSentence)

-----------------------------------------------------------------------------
\* the suit of the card of entry i of placedCards, Undefined for none
SuitAt(i) == CardOf(placedCards[i].cardId).suit

\* the suits the placed cards have
SuitsPlaced == {SuitAt(i) : i \in 1..Len(placedCards)} \ {Undefined, ""}

\* how many placed cards have the suit
SuitCount(suit) == Cardinality({i \in 1..Len(placedCards) : SuitAt(i) = suit})

\* the first entry of placedCards that has the suit
FirstOfSuit(suit) ==
    CHOOSE i \in 1..Len(placedCards) :
        /\ SuitAt(i) = suit
        /\ \A j \in 1..(i - 1) : SuitAt(j) # suit

(* C21: dominantSuit is the suit with the highest count among the placed
   cards that have a suit; of several suits that tie for the highest count
   it is the one whose first card comes earliest in placedCards; it is
   undefined exactly when no placed card has a suit. *)
C21_DominantSuit ==
    Fulfilled =>
        /\ Result.dominantSuit = Undefined <=> SuitsPlaced = {}
        /\ SuitsPlaced # {} =>
              /\ Result.dominantSuit \in SuitsPlaced
              /\ \A suit \in SuitsPlaced :
                    \/ SuitCount(suit) < SuitCount(Result.dominantSuit)
                    \/ /\ SuitCount(suit) = SuitCount(Result.dominantSuit)
                       /\ FirstOfSuit(Result.dominantSuit) <= FirstOfSuit(suit)

\* wands and cups tie and the first placed card is a wands card: the
\* dominant suit is wands, not the alphabetically first cups
C21_Witness ==
    /\ Fulfilled
    /\ SuitsPlaced = {"cups", "wands"}
    /\ SuitCount("cups") = SuitCount("wands")
    /\ SuitAt(1) = "wands"
    /\ Result.dominantSuit = "wands"

-----------------------------------------------------------------------------
\* the keywords of the card of entry i of placedCards
KeywordsAt(i) == CardOf(placedCards[i].cardId).keywords

\* the places <<i, k>> of the flattened keyword sequence: keyword k of the
\* card of entry i
KeywordPlaces ==
    UNION {{<<i, k>> : k \in 1..Len(KeywordsAt(i))} : i \in 1..Len(placedCards)}

\* the distinct keywords of the placed cards
KeywordsPlaced == {KeywordsAt(pl[1])[pl[2]] : pl \in KeywordPlaces}

\* how often the keyword occurs in the flattened sequence
KeywordCount(kw) == Cardinality({pl \in KeywordPlaces : KeywordsAt(pl[1])[pl[2]] = kw})

\* place a comes before place b in the flattened sequence
PlaceBefore(a, b) == a[1] < b[1] \/ (a[1] = b[1] /\ a[2] < b[2])

\* the first place of the keyword in the flattened sequence
FirstPlace(kw) ==
    CHOOSE a \in KeywordPlaces :
        /\ KeywordsAt(a[1])[a[2]] = kw
        /\ \A b \in KeywordPlaces : KeywordsAt(b[1])[b[2]] = kw => (a = b \/ PlaceBefore(a, b))

\* keyword v ranks before keyword w: a higher count, or the same count and
\* an earlier first occurrence
RanksBefore(v, w) ==
    \/ KeywordCount(v) > KeywordCount(w)
    \/ KeywordCount(v) = KeywordCount(w) /\ PlaceBefore(FirstPlace(v), FirstPlace(w))

(* C22: the keywords of the result are the at most 5 distinct keywords with
   the highest occurrence counts over the keywords of all placed cards, by
   descending count, ties by first occurrence in the flattened keyword
   sequence; a keyword outside this top 5 is not listed. *)
C22_TopKeywords ==
    Fulfilled =>
        LET kws == Result.keywords
        IN  /\ Len(kws) = Min(5, Cardinality(KeywordsPlaced))
            /\ \A n \in 1..Len(kws) : kws[n] \in KeywordsPlaced
            /\ \A n, m \in 1..Len(kws) : n < m => RanksBefore(kws[n], kws[m])
            /\ \A n \in 1..Len(kws) :
                  \A w \in KeywordsPlaced \ {kws[m] : m \in 1..Len(kws)} :
                      RanksBefore(kws[n], w)

\* more than 5 distinct keywords are placed; "balance" occurs twice and
\* leads the list though another keyword was met first
C22_Witness ==
    /\ Fulfilled
    /\ Cardinality(KeywordsPlaced) > 5
    /\ Len(Result.keywords) = 5
    /\ KeywordsAt(1)[1] # "balance"
    /\ KeywordCount("balance") = 2
    /\ Result.keywords[1] = "balance"
    /\ Result.keywords[2] = KeywordsAt(1)[1]

-----------------------------------------------------------------------------
ReversedClause == "Many reversed cards suggest internal work and reflection are needed. "

\* the number of placed cards with orientation reversed
ReversedPlaced ==
    Cardinality({i \in 1..Len(placedCards) : placedCards[i].orientation = "reversed"})

(* C23, as amended: reversedCount is the number of placed cards with
   orientation reversed, and overallSummary contains the clause "Many
   reversed cards suggest internal work and reflection are needed. " if and
   only if at least one placed card is reversed and 2 * reversedCount >=
   placedCards.length, compared without rounding. *)
C23_ReversedClause ==
    Fulfilled =>
        /\ Result.reversedCount = ReversedPlaced
        /\ Includes(Result.overallSummary, ReversedClause)
              <=> (ReversedPlaced >= 1 /\ 2 * ReversedPlaced >= Len(placedCards))

\* one of three placed cards is reversed: less than half, which rounding
\* half the total down would hide, and the clause is absent
C23_Witness ==
    /\ Fulfilled
    /\ Len(placedCards) = 3
    /\ ReversedPlaced = 1
    /\ ~Includes(Result.overallSummary, ReversedClause)

(* C23, as stated: overallSummary contains the clause if and only if
   2 * reversedCount >= placedCards.length. *)
C23_AsStated ==
    Fulfilled =>
        Includes(Result.overallSummary, ReversedClause)
            <=> 2 * ReversedPlaced >= Len(placedCards)

-----------------------------------------------------------------------------
LifeChangesClause == "This reading reveals significant life changes and spiritual themes. "

LifeLessonsClause == "Important life lessons and personal growth are highlighted. "

ClosingSentence == "Trust your intuition as you interpret these messages for your path forward."

\* the Major Arcana part of the summary the spec gives a count
ExpectedMajorClause(majorCount) ==
    IF majorCount >= 3 THEN <<LifeChangesClause>>
    ELSE IF majorCount >= 1 THEN <<LifeLessonsClause>>
    ELSE <<>>

\* the dominant suit part of the summary the spec gives a suit
ExpectedFocusClause(suit) ==
    IF suit = Undefined THEN <<>> ELSE <<"The focus is on ", ThemeOf(suit), ". ">>

(* C24: overallSummary is, in this order, the Major Arcana clause
   ("significant life changes" iff majorArcanaCount >= 3, "Important life
   lessons" iff 1 <= majorArcanaCount <= 2, never both), the clause "The
   focus is on {suit theme}. " iff dominantSuit is defined, the reversed
   clause if it is triggered, and always the closing sentence at the end. *)
C24_SummaryOrder ==
    Fulfilled =>
        \E reversedPart \in {<<>>, <<ReversedClause>>} :
            Result.overallSummary =
                ExpectedMajorClause(Result.majorArcanaCount)
                \o ExpectedFocusClause(Result.dominantSuit)
                \o reversedPart
                \o <<ClosingSentence>>

\* a summary with all four parts: one or two Major cards, a dominant suit
\* and enough reversed cards
C24_Witness ==
    /\ Fulfilled
    /\ Result.majorArcanaCount \in {1, 2}
    /\ Result.overallSummary =
          <<LifeLessonsClause, "The focus is on ", "emotions, relationships, and intuition", ". ",
            ReversedClause, ClosingSentence>>

-----------------------------------------------------------------------------
\* the hints the spec gives the counts and the dominant suit of a result
ExpectedHints(majorCount, suit, reversedCount) ==
    (IF majorCount >= 3
     THEN << <<ToString(majorCount), " Major Arcana cards detected ", EmDash,
               " reading focuses on significant life themes">> >>
     ELSE <<>>)
    \o (IF suit # Undefined
        THEN << <<"Dominant suit: ", suit, " ", EmDash, " interpretation emphasizes ",
                  ThemeOf(suit)>> >>
        ELSE <<>>)
    \o (IF reversedCount >= 3
        THEN << <<ToString(reversedCount),
                  " reversed cards suggest internal processing or blocked energies">> >>
        ELSE <<>>)

(* C25: confidenceHints holds at most 3 strings, in the order Major Arcana
   hint, dominant suit hint, reversed hint; the Major Arcana hint is there
   iff majorArcanaCount >= 3, the suit hint iff dominantSuit is defined, the
   reversed hint iff reversedCount >= 3, and the two count hints carry the
   actual counts. *)
C25_ConfidenceHints ==
    Fulfilled =>
        /\ Len(Result.confidenceHints) <= 3
        /\ Result.confidenceHints =
              ExpectedHints(Result.majorArcanaCount, Result.dominantSuit, Result.reversedCount)

\* four Major cards, a cups card and five reversed cards: all three hints,
\* with the counts 4 and 5
C25_Witness ==
    /\ Fulfilled
    /\ Result.confidenceHints =
          << <<"4", " Major Arcana cards detected ", EmDash,
               " reading focuses on significant life themes">>,
             <<"Dominant suit: ", "cups", " ", EmDash, " interpretation emphasizes ",
               "emotions, relationships, and intuition">>,
             <<"5", " reversed cards suggest internal processing or blocked energies">> >>

-----------------------------------------------------------------------------
SynchronicityAction == "Pay attention to synchronicities and signs in your daily life"

BalanceAction == "Seek balance and moderation in all areas of life"

TransformationAction == "Embrace change as an opportunity for growth"

\* the suggestion the spec gives a dominant suit, none for another suit
SuitAction(suit) ==
    CASE suit = "cups" -> <<"Focus on emotional healing and nurturing relationships">>
      [] suit = "wands" -> <<"Take inspired action on creative projects and passions">>
      [] suit = "swords" -> <<"Practice clear communication and mental clarity">>
      [] suit = "pentacles" -> <<"Focus on practical matters and building stable foundations">>
      [] OTHER -> <<>>

\* the candidate list in insertion order
ExpectedCandidates(majorCount, suit, kws) ==
    (IF majorCount >= 2 THEN <<SynchronicityAction>> ELSE <<>>)
    \o SuitAction(suit)
    \o (IF \E n \in 1..Len(kws) : kws[n] = "balance" THEN <<BalanceAction>> ELSE <<>>)
    \o (IF \E n \in 1..Len(kws) : kws[n] = "transformation"
        THEN <<TransformationAction>> ELSE <<>>)

(* C26: suggestedActions is the first 3 entries, or all if there are fewer,
   of the candidate list in insertion order: the synchronicity suggestion
   iff majorArcanaCount >= 2, one suit suggestion iff dominantSuit is cups,
   wands, swords or pentacles, the balance suggestion iff "balance" is in
   the top-5 keywords, the transformation suggestion iff "transformation" is
   in the top-5 keywords. *)
C26_SuggestedActions ==
    Fulfilled =>
        LET candidates ==
                ExpectedCandidates(Result.majorArcanaCount, Result.dominantSuit, Result.keywords)
        IN  Result.suggestedActions = SubSeq(candidates, 1, Min(3, Len(candidates)))

\* "transformation" is a keyword of a placed card but not among the top 5:
\* the balance suggestion is made, the transformation suggestion is not, and
\* fewer than 3 suggestions are made
C26_Witness ==
    /\ Fulfilled
    /\ "transformation" \in KeywordsPlaced
    /\ ~Includes(Result.keywords, "transformation")
    /\ Len(Result.suggestedActions) < 3
    /\ Includes(Result.suggestedActions, BalanceAction)
    /\ ~Includes(Result.suggestedActions, TransformationAction)

-----------------------------------------------------------------------------
\* two entries of placedCards claim the same position or name the same card
HasDuplicates ==
    \E a, b \in 1..Len(placedCards) :
        /\ a # b
        /\ \/ placedCards[a].position = placedCards[b].position
           \/ placedCards[a].cardId = placedCards[b].cardId

(* C27: the engine does not enforce uniqueness within placedCards: when two
   placed cards claim the same position, or the same cardId occurs twice,
   and every entry resolves, the call succeeds and the positions list has
   one entry per placed card in input order, each interpreted for its own
   position, card and orientation; no entry is dropped or overwritten. *)
C27_DuplicatesTolerated ==
    (Settled /\ ValidInput /\ HasDuplicates) =>
        /\ Fulfilled
        /\ Len(Result.positions) = Len(placedCards)
        /\ \A i \in 1..Len(placedCards) :
              LET placed == placedCards[i]
                  entry == Result.positions[i]
              IN  /\ entry.slotName = PositionOf(placed.position).name
                  /\ entry.cardId = placed.cardId
                  /\ entry.orientation = placed.orientation
                  /\ AfterHeader(entry.interpretationShort) = ExpectedBaseShort(placed)

\* the same card is placed twice on the same position, upright and reversed,
\* and the result has both entries
C27_Witness ==
    /\ Fulfilled
    /\ Len(placedCards) = 2
    /\ placedCards[1].cardId = placedCards[2].cardId
    /\ placedCards[1].position = placedCards[2].position
    /\ placedCards[1].orientation = "upright"
    /\ placedCards[2].orientation = "reversed"
    /\ Len(Result.positions) = 2
    /\ Result.positions[1].orientation = "upright"
    /\ Result.positions[2].orientation = "reversed"

-----------------------------------------------------------------------------
(* The Home page of client/src/pages/home.tsx: its handlers, and the       *)
(* interpret mutation whose response arrives later                          *)

\* the most interpret mutations followed while none has settled
MaxInFlight == 1

\* placedCards.findIndex(pc => pc.position === position), counted from 1:
\* 0 when no entry has the position (-1 in the code)
findIndex(placed, position) ==
    IF \E i \in 1..Len(placed) : placed[i].position = position
    THEN CHOOSE i \in 1..Len(placed) :
            /\ placed[i].position = position
            /\ \A k \in 1..(i - 1) : placed[k].position # position
    ELSE 0

\* placedCards.some(pc => pc.cardId === cardId)
isCardAlreadyPlaced(placed, cardId) ==
    \E i \in 1..Len(placed) : placed[i].cardId = cardId

\* mutant of handleCardPlace: a card that is already placed is placed again
handleCardPlaceUnchecked(placed, position, cardId, orientation) ==
    LET existingCardIndex == findIndex(placed, position)
        newCard == [cardId |-> cardId, orientation |-> orientation, position |-> position]
    IN  IF existingCardIndex > 0
        THEN [placed EXCEPT ![existingCardIndex] = newCard]
        ELSE Append(placed, newCard)

\* handleCardPlace(position, cardId, orientation): the placedCards it leaves
handleCardPlace(placed, position, cardId, orientation) ==
    LET existingCardIndex == findIndex(placed, position)
        newCard == [cardId |-> cardId, orientation |-> orientation, position |-> position]
    IN  IF isCardAlreadyPlaced(placed, cardId)
        THEN placed
        ELSE IF existingCardIndex > 0
             THEN [placed EXCEPT ![existingCardIndex] = newCard]
             ELSE Append(placed, newCard)

\* handleCardToggle(cardId): the placedCards it leaves
handleCardToggle(placed, cardId) ==
    [i \in 1..Len(placed) |->
        IF placed[i].cardId = cardId
        THEN [placed[i] EXCEPT !.orientation = IF @ = "upright" THEN "reversed" ELSE "upright"]
        ELSE placed[i]]

\* the variables of the harness of the engine, which the Home page leaves alone
callVars == <<spread, combinationRules, options, outcome, shuffled, stage, request, response>>

HomeInit ==
    /\ HomeMounted
    /\ placedCards = <<>>
    /\ catalog = <<>>
    /\ spread = SingleCard
    /\ combinationRules = <<>>
    /\ options = [given |-> FALSE, reversalMode |-> Undefined]
    /\ outcome = NoOutcome
    /\ shuffled = NotShuffled
    /\ stage = "mounted"
    /\ request = NoRequest
    /\ response = NoResponse

\* useQuery({queryKey: ["/api/cards"]}): cards is [] until the rows of
\* GET /api/cards have arrived
QueryCards ==
    /\ catalog = <<>>
    /\ catalog' = getAllCards
    /\ UNCHANGED <<placedCards, homeVars, callVars>>

\* handleSpreadSelect(spread)
SpreadSelect ==
    /\ \E sp \in HomeSpreads : selectedSpread' = <<sp>>
    /\ placedCards' = <<>>
    /\ shown' = NullState
    /\ isManualMode' = FALSE
    /\ UNCHANGED <<catalog, inFlight, toasted, callVars>>

\* handleShuffleAndDeal()
ShuffleAndDeal ==
    /\ ~(selectedSpread = NullState \/ Len(catalog) = 0)
    /\ \E js \in DrawSequences(Len(catalog)) :
          LET shuffledCards == shuffleDeck(catalog, js)
              dealtTo == Slice0(selectedSpread[1].positions, Len(shuffledCards))
          IN  \E flips \in [1..Len(dealtTo) -> ReversalDraws] :
                 placedCards' = dealCards(shuffledCards, selectedSpread[1], flips)
    /\ shown' = NullState
    /\ isManualMode' = FALSE
    /\ toasted' = "Cards dealt"
    /\ UNCHANGED <<catalog, selectedSpread, inFlight, callVars>>

\* handleManualSelection()
ManualSelection ==
    /\ isManualMode' = TRUE
    /\ placedCards' = <<>>
    /\ shown' = NullState
    /\ toasted' = "Manual mode enabled"
    /\ UNCHANGED <<catalog, selectedSpread, inFlight, callVars>>

\* handleCardPlace(position, cardId, orientation), called by the board of the
\* selected spread with one of its positions and a card of the library
CardPlace ==
    /\ selectedSpread # NullState
    /\ \E k \in 1..Len(selectedSpread[1].positions), c \in 1..Len(catalog),
          orientation \in Orientations :
          LET position == selectedSpread[1].positions[k].index
              cardId == catalog[c].id
          IN  IF isCardAlreadyPlaced(placedCards, cardId)
              THEN /\ toasted' = "Card already in use"
                   /\ placedCards' = handleCardPlace(placedCards, position, cardId, orientation)
                   /\ UNCHANGED shown
              ELSE /\ placedCards' = handleCardPlace(placedCards, position, cardId, orientation)
                   /\ shown' = NullState
                   /\ UNCHANGED toasted
    /\ UNCHANGED <<catalog, selectedSpread, isManualMode, inFlight, callVars>>

\* handleCardToggle(cardId)
CardToggle ==
    /\ \E c \in 1..Len(catalog) :
          placedCards' = handleCardToggle(placedCards, catalog[c].id)
    /\ shown' = NullState
    /\ UNCHANGED <<catalog, selectedSpread, isManualMode, inFlight, toasted, callVars>>

\* handleClearSpread()
ClearSpread ==
    /\ placedCards' = <<>>
    /\ shown' = NullState
    /\ toasted' = "Spread cleared"
    /\ UNCHANGED <<catalog, selectedSpread, isManualMode, inFlight, callVars>>

\* the body handleInterpret sends for a spread and its placed cards
interpretBody(sp, placed) ==
    [spreadId |-> sp.id, cards |-> placed,
     options |-> [given |-> TRUE, reversalMode |-> "soft"]]

\* handleInterpret(): interpretMutation.mutate(...) sends the request
HandleInterpret ==
    /\ ~(selectedSpread = NullState \/ Len(placedCards) = 0)
    /\ Len(inFlight) < MaxInFlight
    /\ inFlight' = Append(inFlight, interpretBody(selectedSpread[1], placedCards))
    /\ UNCHANGED <<placedCards, catalog, selectedSpread, shown, isManualMode, toasted,
                   callVars>>

\* a sequence without its k-th element
Without(seq, k) == SubSeq(seq, 1, k - 1) \o SubSeq(seq, k + 1, Len(seq))

\* onSuccess(result): the response to one of the mutations has arrived
MutationSuccess ==
    /\ \E k \in 1..Len(inFlight) :
          LET answer == postInterpret(inFlight[k])
          IN  /\ answer.status = 200
              /\ shown' = <<answer.body>>
              /\ inFlight' = Without(inFlight, k)
    /\ toasted' = "Reading interpreted"
    /\ UNCHANGED <<placedCards, catalog, selectedSpread, isManualMode, callVars>>

\* onError(error): one of the mutations has failed, for one the route
\* refuses or for want of a connection
MutationError ==
    /\ \E k \in 1..Len(inFlight) : inFlight' = Without(inFlight, k)
    /\ toasted' = "Interpretation failed"
    /\ UNCHANGED <<placedCards, catalog, selectedSpread, shown, isManualMode, callVars>>

\* what the user does on the board
BoardNext ==
    \/ QueryCards
    \/ SpreadSelect
    \/ ShuffleAndDeal
    \/ ManualSelection
    \/ CardPlace
    \/ CardToggle
    \/ ClearSpread

SpecBoard == HomeInit /\ [][BoardNext]_vars

HomeNext ==
    \/ BoardNext
    \/ HandleInterpret
    \/ MutationSuccess
    \/ MutationError

SpecHome == HomeInit /\ [][HomeNext]_vars

-----------------------------------------------------------------------------
(* What the Home page shows *)

\* the reading the route computes for the spread selected and the cards placed
\* now
CurrentReading == postInterpret(interpretBody(selectedSpread[1], placedCards)).body

(* C28: in the Home page, whenever an interpretation is shown (the state
   interpretation is not null) it is the result computed for the current
   placedCards and the spread selected now; a response to a request sent
   before the cards last changed is never shown, however the user's actions
   interleave with the arrival of the response. *)
C28_ShownIsCurrent ==
    shown # NullState =>
        /\ selectedSpread # NullState
        /\ shown[1] = CurrentReading

\* the ids of the cards of the library are distinct, and so are the position
\* indices of the spread selected
UniqueIdsAndIndices ==
    /\ \A a, b \in 1..Len(catalog) : catalog[a].id = catalog[b].id => a = b
    /\ \A sp \in {selectedSpread[k] : k \in 1..Len(selectedSpread)} :
          \A a, b \in 1..Len(sp.positions) :
              sp.positions[a].index = sp.positions[b].index => a = b

\* the entries of placedCards that hold this card
EntriesOfCard(cardId) == {i \in 1..Len(placedCards) : placedCards[i].cardId = cardId}

\* the entries of placedCards on this position
EntriesOn(position) == {i \in 1..Len(placedCards) : placedCards[i].position = position}

\* what the board may ask handleCardPlace for: a position of the spread
\* selected, a card of the library, an orientation
Placements ==
    {[position |-> sp.positions[k].index, cardId |-> catalog[c].id, orientation |-> o] :
        sp \in {selectedSpread[s] : s \in 1..Len(selectedSpread)},
        k \in 1..(IF selectedSpread = NullState THEN 0 ELSE Len(selectedSpread[1].positions)),
        c \in 1..Len(catalog), o \in Orientations}

(* C29: in the Home page, with distinct card ids in the catalog and distinct
   position indices in the spread, after any sequence of select-spread,
   shuffle-and-deal, manual-mode, place-card, toggle-orientation and clear
   placedCards never holds two entries with the same cardId nor two with the
   same position; placing a card that is already placed leaves placedCards
   as it is, placing a new card on an occupied position replaces the entry
   there, and placing it on a free position appends it. *)
C29_PlacedCardsUnique ==
    UniqueIdsAndIndices =>
        /\ \A a, b \in 1..Len(placedCards) :
              a # b => /\ placedCards[a].cardId # placedCards[b].cardId
                       /\ placedCards[a].position # placedCards[b].position
        /\ \A p \in Placements :
              LET after == handleCardPlace(placedCards, p.position, p.cardId, p.orientation)
              IN  IF EntriesOfCard(p.cardId) # {}
                  THEN after = placedCards
                  ELSE IF EntriesOn(p.position) # {}
                  THEN /\ Len(after) = Len(placedCards)
                       /\ \A i \in 1..Len(after) :
                             IF i \in EntriesOn(p.position)
                             THEN after[i] = p
                             ELSE after[i] = placedCards[i]
                  ELSE after = placedCards \o <<p>>

\* both positions of the two card spread are taken, and the last placement was
\* turned down because its card was on the board
C29_Witness ==
    /\ UniqueIdsAndIndices
    /\ selectedSpread = <<TwoCard>>
    /\ isManualMode
    /\ Len(placedCards) = 2
    /\ toasted = "Card already in use"

-----------------------------------------------------------------------------
(* The engine on what the dealer hands it *)

(* C30: the deal pipeline yields a valid engine input: for every catalog,
   spread and sequence of random draws,
   interpretReading(spread, dealCards(shuffleDeck(cards), spread), cards,
   rules, options) does not fail with "Card not found" or "Position not
   found", and its positions list has
   min(cards.length, spread.positions.length) entries, entry i carrying the
   name of spread.positions[i], the position it was dealt to. *)
C30_DealtIsValidInput ==
    stage = "interpreted" =>
        /\ ~Rejected
        /\ Fulfilled
        /\ Len(Result.positions) = Min(Len(catalog), Len(spread.positions))
        /\ \A i \in 1..Len(Result.positions) :
              /\ Result.positions[i].slotName = spread.positions[i].name
              /\ placedCards[i].position = spread.positions[i].index

\* four cards dealt along the five card spread and interpreted: the fourth
\* went to position 4, "Advice", past the gap in the indices
C30_Witness ==
    /\ stage = "interpreted"
    /\ spread = FiveCard
    /\ Len(catalog) = 4
    /\ Fulfilled
    /\ Len(Result.positions) = 4
    /\ placedCards[4].position = 4
    /\ Result.positions[4].slotName = "Advice"

====
